---- MODULE Spec2Model ----
(***************************************************************************)
(* ToolBox (tb): context resolution and secure dispatch.                   *)
(*                                                                         *)
(* Strings are TLA+ strings used as sequences of characters (Len, Head,    *)
(* Tail, SubSeq, \o), so that splitting, joining and prefix tests are      *)
(* computed character by character as the Go code computes them.           *)
(***************************************************************************)
EXTENDS Integers, Sequences, FiniteSets, TLC

VARIABLES
    \* --- executeCommandSecure called on its own (SpecExec)
    baseCommand,    \* the resolved invocation string
    userArgs,       \* caller-supplied arguments
    execResult,     \* [err, spawned] returned by the executor
    xpc,            \* "call" | "done"
    osOutcome,      \* what the OS did in the call: [found, run]
    \* --- Detector.Detect called on its own (SpecDetect)
    fs,             \* directory entries [dir, name, isDir] of the chain / .. start
    startDir,       \* level of the start directory below the root (0 = root)
    detectResult,   \* [context, found, examined] returned by Detect
    dpc,            \* "call" | "done"
    dMarkers,       \* d.markers: context name -> marker files
    \* --- the Plugin Manager driven by its callers (SpecPM)
    plugins,        \* pm.plugins: registered plugins, in registration order
    metadata,       \* pm.metadata: plugin name -> PluginMetadata
    pmDir,          \* entries of the directory DetectContext is asked about
    pmCall,         \* the most recent call on the manager and what it returned
    allowedHashes,  \* pm.allowedHashes: the trusted plugin hashes
    \* --- one invocation of handleDynamicCommand (SpecDispatch); it also uses
    \* fs/startDir as the working directory, plugins/metadata as its manager,
    \* baseCommand/userArgs as its locals baseCommand/commandArgs and
    \* execResult as what the executor returned
    cliArgs,        \* os.Args[1:] as Execute leaves it: the args of handleDynamicCommand
    configFiles,    \* path -> configuration file on disk
    locals,         \* the flag variables and locals of handleDynamicCommand
    hpc,            \* the step the invocation takes next
    osArgs,         \* os.Args[1:] as the process was started
    \* --- a Registry called on its own (SpecRegistry)
    regConfig,      \* the configuration the Registry was built over
    regCall         \* the most recent call on the Registry and what it returned

execVars == <<baseCommand, userArgs, execResult, xpc, osOutcome>>
detectVars == <<fs, startDir, detectResult, dpc, dMarkers>>
pmVars == <<plugins, metadata, pmDir, pmCall, allowedHashes>>
hdcVars == <<cliArgs, configFiles, locals, hpc, osArgs>>
regVars == <<regConfig, regCall>>

vars == <<baseCommand, userArgs, execResult, xpc, osOutcome,
          fs, startDir, detectResult, dpc, dMarkers,
          plugins, metadata, pmDir, pmCall, allowedHashes,
          cliArgs, configFiles, locals, hpc, osArgs,
          regConfig, regCall>>

-----------------------------------------------------------------------------
(* Bounds of the model *)

MaxBaseLen == 4
MaxArgs == 2
MaxDepth == 5
MaxPlugins == 2

-----------------------------------------------------------------------------
(* Values the variables of a component hold while it has not been called *)

ExecIdle == [err |-> "nil", spawned |-> <<>>]
DetectIdle == [context |-> "", found |-> FALSE, examined |-> 0]
NoCall == [op |-> "none"]
OsIdle == [found |-> FALSE, run |-> "none"]
NilConfig == [isNil |-> TRUE]

-----------------------------------------------------------------------------
(* String helpers (Go: strings package) *)

Char(s, i) == SubSeq(s, i, i)

\* unicode.IsSpace restricted to the ASCII white space strings.Fields uses
IsSpace(c) == c \in {" ", "\t", "\n", "\r"}

\* strings.HasPrefix
HasPrefix(s, p) == Len(s) >= Len(p) /\ SubSeq(s, 1, Len(p)) = p

Contains(s, p) == \E i \in 1..(Len(s) - Len(p) + 1) : SubSeq(s, i, i + Len(p) - 1) = p

\* strings.Contains for a one-character pattern
ContainsChar(s, c) == \E i \in 1..Len(s) : Char(s, i) = c

RECURSIVE FieldsFrom(_, _, _, _)
FieldsFrom(s, i, cur, acc) ==
    IF i > Len(s)
    THEN IF cur = "" THEN acc ELSE Append(acc, cur)
    ELSE IF IsSpace(Char(s, i))
         THEN FieldsFrom(s, i + 1, "", IF cur = "" THEN acc ELSE Append(acc, cur))
         ELSE FieldsFrom(s, i + 1, cur \o Char(s, i), acc)

\* strings.Fields: the maximal runs of non-space characters, in order
Fields(s) == FieldsFrom(s, 1, "", <<>>)

RECURSIVE Join(_, _)
\* strings.Join
Join(elems, sep) ==
    IF elems = <<>> THEN ""
    ELSE IF Len(elems) = 1 THEN elems[1]
    ELSE elems[1] \o sep \o Join(Tail(elems), sep)

RECURSIVE Cat(_)
Cat(q) == IF q = <<>> THEN "" ELSE Head(q) \o Cat(Tail(q))

\* every string over alphabet of length at most n
StringsUpTo(alphabet, n) == { Cat(q) : q \in UNION { [1..k -> alphabet] : k \in 0..n } }

SeqsUpTo(S, n) == UNION { [1..k -> S] : k \in 0..n }

-----------------------------------------------------------------------------
(* Secure Executor (internal/cli/root.go) *)

BinDir == "/usr/bin/"

\* exec.LookPath for a name that resolves: a name with a slash is used as is,
\* any other is found in a directory of the search path
LookPath(file) == IF ContainsChar(file, "/") THEN file ELSE BinDir \o file

\* cmd.Run() as seen by the caller: child = what became of the child,
\* err = Run returned an error, deadline = ctx.Err() is DeadlineExceeded at
\* the moment the caller reads it, which is after Run has returned
RunOutcomes ==
    { [child |-> "exited 0", err |-> FALSE, deadline |-> FALSE],
      [child |-> "exited 0", err |-> FALSE, deadline |-> TRUE],
      [child |-> "failed",   err |-> TRUE,  deadline |-> FALSE],
      [child |-> "failed",   err |-> TRUE,  deadline |-> TRUE],
      [child |-> "killed at the deadline", err |-> TRUE, deadline |-> TRUE] }

\* what the OS does in one call of the executor: whether exec.LookPath
\* resolves the program and, if it does, how the child's run ends
OsOutcomes ==
    { [found |-> FALSE, run |-> "none"] }
    \cup { [found |-> TRUE, run |-> r] : r \in RunOutcomes }

NoError == "nil"

\* the pre-fix executor kept beside the secure one: one string handed to a shell
executeCommandShellFallback(command, args, found, run) ==
    [ err |-> IF ~found THEN "shell command failed"
              ELSE IF run.err
              THEN IF run.deadline THEN "command timed out" ELSE "shell command failed"
              ELSE NoError,
      spawned |-> << [path |-> "/bin/sh",
                      args |-> <<"-c", Join(<<command>> \o args, " ")>>] >> ]

\* the executor with the caller arguments joined to the base string and split again
executeCommandJoined(command, args, found, run) ==
    LET parts == Fields(Join(<<command>> \o args, " ")) IN
    IF Len(parts) = 0
    THEN [err |-> "empty command", spawned |-> <<>>]
    ELSE IF ~found
         THEN [err |-> "command not found", spawned |-> <<>>]
         ELSE [ err |-> IF run.err
                        THEN IF run.deadline THEN "command timed out"
                                             ELSE "command failed"
                        ELSE NoError,
                spawned |-> << [path |-> LookPath(parts[1]), args |-> Tail(parts)] >> ]

\* the executor without the LookPath check: the program is started whether or
\* not it resolves, and the failure to start is a failed command
executeCommandNoLookPath(command, args, found, run) ==
    LET parts == Fields(command) IN
    IF Len(parts) = 0
    THEN [err |-> "empty command", spawned |-> <<>>]
    ELSE [ err |-> IF ~found THEN "command failed"
                   ELSE IF run.err
                        THEN IF run.deadline THEN "command timed out"
                                             ELSE "command failed"
                        ELSE NoError,
           spawned |-> << [path |-> parts[1], args |-> Tail(parts) \o args] >> ]


\* executeCommandSecure(ctx, baseCommand, userArgs); found = LookPath resolves
\* the program, run = what cmd.Run does
executeCommandSecure(command, args, found, run) ==
    LET parts == Fields(command) IN
    IF Len(parts) = 0
    THEN [err |-> "empty command", spawned |-> <<>>]
    ELSE LET program == parts[1]
             baseArgs == Tail(parts)
             allArgs  == baseArgs \o args
         IN  IF ~found
             THEN [err |-> "command not found", spawned |-> <<>>]
             ELSE [ err |-> IF run.err
                            THEN IF run.deadline THEN "command timed out"
                                                 ELSE "command failed"
                            ELSE NoError,
                    spawned |-> << [path |-> LookPath(program), args |-> allArgs] >> ]

-----------------------------------------------------------------------------
(* Context Detector (internal/context/detector.go) *)

\* NewDetector: context name -> marker files, the initial d.markers
markers ==
    [ node   |-> <<"package.json", "package-lock.json", "yarn.lock", "pnpm-lock.yaml">>,
      go     |-> <<"go.mod", "go.sum">>,
      python |-> <<"pyproject.toml", "setup.py", "requirements.txt", "Pipfile">>,
      rust   |-> <<"Cargo.toml", "Cargo.lock">>,
      make   |-> <<"Makefile", "makefile">>,
      ruby   |-> <<"Gemfile", "Gemfile.lock">>,
      java   |-> <<"pom.xml", "build.gradle", "build.gradle.kts">>,
      php    |-> <<"composer.json", "composer.lock">> ]

\* the order detectInDirectory would follow were the map ranged over by key
priorityOrderByName == <<"go", "java", "make", "node", "php", "python", "ruby", "rust">>

priorityOrder == <<"node", "go", "python", "rust", "java", "ruby", "php", "make">>

\* fileExists: the path names an entry that is not a directory
fileExists(files, dir, name) ==
    \E e \in files : e.dir = dir /\ e.name = name /\ ~e.isDir

\* filepath.Dir on the chain of directories: the root is its own parent
Dir(dir) == IF dir = 0 THEN 0 ELSE dir - 1

RECURSIVE markerLoop(_, _, _, _)
markerLoop(files, dir, ms, j) ==
    IF j > Len(ms) THEN FALSE
    ELSE IF fileExists(files, dir, ms[j]) THEN TRUE
    ELSE markerLoop(files, dir, ms, j + 1)

\* Detector.AddMarker(context, markerFile) on the marker table
AddMarker(ms, context, markerFile) ==
    (context :> Append(IF context \in DOMAIN ms THEN ms[context] ELSE << >>, markerFile))
    @@ ms

\* detectInDirectory's loop going on, after the priority list, to the
\* contexts of the table the list does not name
RECURSIVE contextLoopEveryContext(_, _, _)
contextLoopEveryContext(files, dir, i) ==
    IF i > Len(priorityOrder)
    THEN LET listed == { priorityOrder[k] : k \in 1..Len(priorityOrder) }
             others == { c \in DOMAIN dMarkers \ listed : markerLoop(files, dir, dMarkers[c], 1) }
         IN  IF others = {} THEN [context |-> "", found |-> FALSE]
             ELSE [context |-> CHOOSE c \in others : TRUE, found |-> TRUE]
    ELSE LET ctx == priorityOrder[i] IN
         IF ctx \notin DOMAIN dMarkers THEN contextLoopEveryContext(files, dir, i + 1)
         ELSE IF markerLoop(files, dir, dMarkers[ctx], 1)
              THEN [context |-> ctx, found |-> TRUE]
              ELSE contextLoopEveryContext(files, dir, i + 1)


RECURSIVE contextLoop(_, _, _)
contextLoop(files, dir, i) ==
    IF i > Len(priorityOrder) THEN [context |-> "", found |-> FALSE]
    ELSE LET ctx == priorityOrder[i] IN
         IF ctx \notin DOMAIN dMarkers THEN contextLoop(files, dir, i + 1)
         ELSE IF markerLoop(files, dir, dMarkers[ctx], 1)
              THEN [context |-> ctx, found |-> TRUE]
              ELSE contextLoop(files, dir, i + 1)

detectInDirectory(files, dir) == contextLoop(files, dir, 1)

\* the number of directories Detect looks into (for i := 0; i < 4; i++)
DetectLevels == 4

RECURSIVE DetectLoop(_, _, _, _)
DetectLoop(files, searchDir, i, limit) ==
    IF i >= limit
    THEN [context |-> "", found |-> FALSE, examined |-> i]
    ELSE LET r == detectInDirectory(files, searchDir) IN
         IF r.found
         THEN [context |-> r.context, found |-> TRUE, examined |-> i + 1]
         ELSE LET parent == Dir(searchDir) IN
              IF parent = searchDir
              THEN [context |-> "", found |-> FALSE, examined |-> i + 1]
              ELSE DetectLoop(files, parent, i + 1, limit)

\* Detect walking up to the root with no limit on the levels
DetectUnbounded(files, dir) == DetectLoop(files, dir, 0, dir + 2)

\* Detect with the two loops exchanged: the identities are tried in priority
\* order, each over all the directories within the bound
DetectPriorityFirst(files, dir) ==
    LET levels == { d \in 0..dir : dir - d < DetectLevels }
        ranks  == { i \in 1..Len(priorityOrder) :
                      /\ priorityOrder[i] \in DOMAIN dMarkers
                      /\ \E d \in levels :
                            markerLoop(files, d, dMarkers[priorityOrder[i]], 1) }
    IN  IF ranks = {} THEN DetectLoop(files, dir, 0, DetectLevels)
        ELSE [ context  |-> priorityOrder[CHOOSE i \in ranks : \A k \in ranks : i <= k],
               found    |-> TRUE,
               examined |-> DetectLoop(files, dir, 0, DetectLevels).examined ]


\* Detector.Detect; found = FALSE is the "no recognized project context" error
Detect(files, dir) == DetectLoop(files, dir, 0, DetectLevels)

-----------------------------------------------------------------------------
(* Plugins (internal/plugin/examples.go, internal/plugin/ubuntu.go)          *)
(*                                                                           *)
(* A Plugin value is [kind, name, version, contexts]: kind names the Go type *)
(* whose Detect and Validate methods apply; name and version are the struct  *)
(* fields and contexts is what Contexts() returns, which for the three       *)
(* compiled-in types is a fixed table.  Other implementers of the Plugin     *)
(* interface are of kind "my" or "static", after the two implementations the *)
(* documentation gives; they also hold the marker their Detect looks for and *)
(* the context it reports.  A ContextConfig is                               *)
(* [Commands |-> command name -> invocation string].                         *)

EmptyMap == [x \in {} |-> x]

\* map[k] = v, replacing what k held
MapSet(m, k, v) == (k :> v) @@ m

\* getEmbeddedScriptPath when the cache directory is writable
ScriptPath == "/home/u/.cache/toolbox/ubuntu_helpers.sh"

DockerContexts ==
    ( "docker" :> [Commands |->
          ( "build"   :> "docker build -t $(basename $(pwd)) ." ) @@
          ( "run"     :> "docker run -it $(basename $(pwd))" ) @@
          ( "push"    :> "docker push $(basename $(pwd))" ) @@
          ( "compose" :> "docker-compose up" ) @@
          ( "stop"    :> "docker-compose down" ) @@
          ( "logs"    :> "docker-compose logs -f" ) @@
          ( "shell"   :> "docker exec -it $(docker ps -q -f name=$(basename $(pwd))) /bin/bash" ) ] ) @@
    ( "docker-compose" :> [Commands |->
          ( "up"      :> "docker-compose up -d" ) @@
          ( "down"    :> "docker-compose down" ) @@
          ( "logs"    :> "docker-compose logs -f" ) @@
          ( "build"   :> "docker-compose build" ) @@
          ( "restart" :> "docker-compose restart" ) ] )

KubernetesContexts ==
    ( "kubernetes" :> [Commands |->
          ( "apply"        :> "kubectl apply -f ." ) @@
          ( "delete"       :> "kubectl delete -f ." ) @@
          ( "get"          :> "kubectl get all" ) @@
          ( "logs"         :> "kubectl logs -f" ) @@
          ( "describe"     :> "kubectl describe" ) @@
          ( "exec"         :> "kubectl exec -it" ) @@
          ( "port-forward" :> "kubectl port-forward" ) ] ) @@
    ( "helm" :> [Commands |->
          ( "install"  :> "helm install" ) @@
          ( "upgrade"  :> "helm upgrade" ) @@
          ( "rollback" :> "helm rollback" ) @@
          ( "list"     :> "helm list" ) @@
          ( "delete"   :> "helm delete" ) ] )

UbuntuContexts ==
    ( "ubuntu-packaging" :> [Commands |->
          ( "gbranch"      :> "bash " \o ScriptPath \o " gbranch" ) @@
          ( "ppa-status"   :> "bash " \o ScriptPath \o " ppa-status" ) @@
          ( "ppa-migrate"  :> "bash " \o ScriptPath \o " ppa-migrate" ) @@
          ( "dch-auto"     :> "bash " \o ScriptPath \o " dch-auto" ) @@
          ( "ubuild"       :> "bash " \o ScriptPath \o " ubuild" ) @@
          ( "sb-auto"      :> "bash " \o ScriptPath \o " sb-auto" ) @@
          ( "dput-auto"    :> "bash " \o ScriptPath \o " dput-auto" ) @@
          ( "dch"          :> "dch -i" ) @@
          ( "dch-release"  :> "dch -r" ) @@
          ( "build"        :> "dpkg-buildpackage -us -uc" ) @@
          ( "build-source" :> "dpkg-buildpackage -S -us -uc" ) @@
          ( "changelog"    :> "dpkg-parsechangelog" ) @@
          ( "version"      :> "dpkg-parsechangelog -S Version" ) @@
          ( "clean"        :> "debian/rules clean" ) @@
          ( "distclean"    :> "fakeroot debian/rules clean" ) @@
          ( "lint"         :> "lintian" ) @@
          ( "lint-source"  :> "lintian --pedantic *.dsc" ) @@
          ( "lint-changes" :> "lintian --pedantic *.changes" ) ] )

NewDockerPlugin ==
    [kind |-> "docker", name |-> "docker", version |-> "1.0.0", contexts |-> DockerContexts]

NewKubernetesPlugin ==
    [kind |-> "kubernetes", name |-> "kubernetes", version |-> "1.0.0",
     contexts |-> KubernetesContexts]

NewUbuntuPlugin ==
    [kind |-> "ubuntu", name |-> "ubuntu", version |-> "1.0.0", contexts |-> UbuntuContexts]

Name(p) == p.name
Version(p) == p.version
Contexts(p) == p.contexts

\* fileExists of the plugin package: a path that is there and is no directory
isFile(files, path) == \E e \in files : e.name = path /\ ~e.isDir

\* os.Stat succeeds: a path that is there, file or directory
statOK(files, path) == \E e \in files : e.name = path

NotDetected == [context |-> "", found |-> FALSE]

DockerDetect(files) ==
    IF isFile(files, "Dockerfile") THEN [context |-> "docker", found |-> TRUE]
    ELSE IF isFile(files, "docker-compose.yml") \/ isFile(files, "docker-compose.yaml")
         THEN [context |-> "docker-compose", found |-> TRUE]
         ELSE NotDetected

KubernetesDetect(files) ==
    IF \E m \in { "deployment.yaml", "deployment.yml", "k8s/deployment.yaml",
                  "kubernetes/deployment.yaml" } : isFile(files, m)
    THEN [context |-> "kubernetes", found |-> TRUE]
    ELSE IF isFile(files, "Chart.yaml") THEN [context |-> "helm", found |-> TRUE]
         ELSE NotDetected

UbuntuDetect(files) ==
    IF statOK(files, "debian/control") THEN [context |-> "ubuntu-packaging", found |-> TRUE]
    ELSE IF statOK(files, "debian/changelog")
         THEN [context |-> "ubuntu-packaging", found |-> TRUE]
         ELSE NotDetected

\* Detect of an implementer outside the package: os.Stat of its marker file
MarkerDetect(p, files) ==
    IF statOK(files, p.marker) THEN [context |-> p.detects, found |-> TRUE]
    ELSE NotDetected

\* Plugin.Detect, dispatched on the Go type
PluginDetect(p, files) ==
    CASE p.kind = "docker"     -> DockerDetect(files)
      [] p.kind = "kubernetes" -> KubernetesDetect(files)
      [] p.kind = "ubuntu"     -> UbuntuDetect(files)
      [] OTHER                 -> MarkerDetect(p, files)

\* Validate returns nil (NoError) or an error.  Where the Go loop ranges over a
\* map and several entries are at fault, the entry named in the message depends
\* on the iteration order; the error is non-nil in every order.
DockerValidate(p) ==
    IF p.name = "" THEN "plugin name cannot be empty"
    ELSE IF p.version = "" THEN "plugin version cannot be empty"
    ELSE IF \E c \in DOMAIN Contexts(p) : DOMAIN Contexts(p)[c].Commands = {}
         THEN "context has no commands"
    ELSE IF \E c \in DOMAIN Contexts(p) :
               \E k \in DOMAIN Contexts(p)[c].Commands : Contexts(p)[c].Commands[k] = ""
         THEN "command is empty"
    ELSE NoError

KubernetesValidate(p) ==
    IF p.name = "" THEN "plugin name cannot be empty"
    ELSE IF p.version = "" THEN "plugin version cannot be empty"
    ELSE IF \E c \in DOMAIN Contexts(p) : DOMAIN Contexts(p)[c].Commands = {}
         THEN "context has no commands"
    ELSE NoError

UbuntuValidate(p) ==
    IF p.name = "" THEN "plugin name cannot be empty"
    ELSE IF p.version = "" THEN "plugin version cannot be empty"
    ELSE IF DOMAIN Contexts(p) = {} THEN "plugin must provide at least one context"
    ELSE IF \E c \in DOMAIN Contexts(p) : DOMAIN Contexts(p)[c].Commands = {}
         THEN "context has no commands"
    ELSE NoError

\* Validate as the API reference writes it for an implementer
MyPluginValidate(p) ==
    IF p.name = "" THEN "plugin name cannot be empty"
    ELSE IF p.version = "" THEN "plugin version cannot be empty"
    ELSE IF DOMAIN Contexts(p) = {} THEN "plugin must provide at least one context"
    ELSE IF \E c \in DOMAIN Contexts(p) : DOMAIN Contexts(p)[c].Commands = {}
         THEN "context has no commands"
    ELSE NoError

\* Validate as the developer guide's static plugin has it: return nil
StaticPluginValidate(p) == NoError

\* Plugin.Validate, dispatched on the Go type
Validate(p) ==
    CASE p.kind = "docker"     -> DockerValidate(p)
      [] p.kind = "kubernetes" -> KubernetesValidate(p)
      [] p.kind = "ubuntu"     -> UbuntuValidate(p)
      [] p.kind = "my"         -> MyPluginValidate(p)
      [] p.kind = "static"     -> StaticPluginValidate(p)

-----------------------------------------------------------------------------
(* Plugin Manager (internal/plugin/plugin.go) *)

\* for ... range over a Go map: the keys in an order the runtime picks; flip
\* selects between the two orders the model distinguishes
RECURSIVE KeysInOrder(_)
KeysInOrder(S) ==
    IF S = {} THEN <<>>
    ELSE LET k == CHOOSE x \in S : TRUE IN <<k>> \o KeysInOrder(S \ {k})

RECURSIVE Reverse(_)
Reverse(q) == IF q = <<>> THEN <<>> ELSE Append(Reverse(Tail(q)), Head(q))

RangeKeys(m, flip) ==
    IF flip THEN Reverse(KeysInOrder(DOMAIN m)) ELSE KeysInOrder(DOMAIN m)

NewPluginManager == [plugins |-> <<>>, metadata |-> EmptyMap]

\* RegisterPlugin that appends first and looks for a name conflict afterwards
RegisterPluginNoConflictCheck(pm, plugin, flip) ==
    IF Validate(plugin) # NoError
    THEN [err |-> "plugin validation failed", plugins |-> pm.plugins,
          metadata |-> pm.metadata]
    ELSE [ err |-> NoError,
           plugins |-> Append(pm.plugins, plugin),
           metadata |-> MapSet(pm.metadata, Name(plugin),
                           [ Name |-> Name(plugin), Version |-> Version(plugin),
                             Path |-> "", Hash |-> "", Enabled |-> TRUE,
                             ContextCount |-> Cardinality(DOMAIN Contexts(plugin)),
                             Contexts |-> RangeKeys(Contexts(plugin), flip) ]) ]

\* RegisterPlugin that appends to the list before it validates and looks for
\* a name conflict, so that a refused plugin stays in the list
RegisterPluginAppendFirst(pm, plugin, flip) ==
    IF Validate(plugin) # NoError
    THEN [err |-> "plugin validation failed", plugins |-> Append(pm.plugins, plugin),
          metadata |-> pm.metadata]
    ELSE LET name == Name(plugin) IN
         IF name \in DOMAIN pm.metadata
         THEN [err |-> "plugin already registered", plugins |-> Append(pm.plugins, plugin),
               metadata |-> pm.metadata]
         ELSE [ err |-> NoError,
                plugins |-> Append(pm.plugins, plugin),
                metadata |-> MapSet(pm.metadata, name,
                                [ Name |-> name, Version |-> Version(plugin),
                                  Path |-> "", Hash |-> "", Enabled |-> TRUE,
                                  ContextCount |-> Cardinality(DOMAIN Contexts(plugin)),
                                  Contexts |-> RangeKeys(Contexts(plugin), flip) ]) ]


\* pm.RegisterPlugin(plugin): [err, plugins, metadata] after the call
RegisterPlugin(pm, plugin, flip) ==
    IF Validate(plugin) # NoError
    THEN [err |-> "plugin validation failed", plugins |-> pm.plugins,
          metadata |-> pm.metadata]
    ELSE LET name == Name(plugin) IN
         IF name \in DOMAIN pm.metadata
         THEN [err |-> "plugin already registered", plugins |-> pm.plugins,
               metadata |-> pm.metadata]
         ELSE [ err |-> NoError,
                plugins |-> Append(pm.plugins, plugin),
                metadata |-> MapSet(pm.metadata, name,
                                [ Name |-> name, Version |-> Version(plugin),
                                  Path |-> "", Hash |-> "", Enabled |-> TRUE,
                                  ContextCount |-> Cardinality(DOMAIN Contexts(plugin)),
                                  Contexts |-> RangeKeys(Contexts(plugin), flip) ]) ]

\* filepath.Ext: the suffix that starts at the last dot of the last element
Ext(path) ==
    LET dots == { i \in 1..Len(path) :
                     /\ Char(path, i) = "."
                     /\ \A j \in (i + 1)..Len(path) : Char(path, j) \notin {".", "/"} }
    IN  IF dots = {} THEN ""
        ELSE LET i == CHOOSE d \in dots : TRUE IN SubSeq(path, i, Len(path))

\* validatePluginPath, for paths filepath.Clean leaves as they are; disk maps
\* a path to [regular, readable, hash]
validatePluginPath(disk, path) ==
    IF Contains(path, "..") THEN "directory traversal not allowed"
    ELSE IF path \notin DOMAIN disk THEN "plugin file not accessible"
    ELSE IF ~disk[path].regular THEN "plugin must be a regular file"
    ELSE IF Ext(path) \notin {".so", ".dll", ".dylib"} THEN "invalid plugin extension"
    ELSE NoError

\* calculateFileHash: [hash, err]
calculateFileHash(disk, path) ==
    IF path \notin DOMAIN disk \/ ~disk[path].readable
    THEN [hash |-> "", err |-> "open failed"]
    ELSE [hash |-> disk[path].hash, err |-> NoError]

\* LoadPlugin that registers the file's plugin once the path and the hash
\* have passed
LoadPluginNative(pm, disk, path) ==
    IF validatePluginPath(disk, path) # NoError
    THEN [err |-> "invalid plugin path", plugins |-> pm.plugins, metadata |-> pm.metadata]
    ELSE LET h == calculateFileHash(disk, path) IN
         IF h.err # NoError
         THEN [err |-> "failed to calculate plugin hash", plugins |-> pm.plugins,
               metadata |-> pm.metadata]
         ELSE IF pm.allowedHashes # {} /\ h.hash \notin pm.allowedHashes
         THEN [err |-> "plugin not in allowlist", plugins |-> pm.plugins,
               metadata |-> pm.metadata]
         ELSE [err |-> NoError,
               plugins |-> Append(pm.plugins,
                                  [kind |-> "static", name |-> path, version |-> "1",
                                   contexts |-> EmptyMap, marker |-> "", detects |-> ""]),
               metadata |-> MapSet(pm.metadata, path,
                                   [ Name |-> path, Version |-> "1", Path |-> path,
                                     Hash |-> h.hash, Enabled |-> TRUE,
                                     ContextCount |-> 0, Contexts |-> << >> ]) ]

\* PluginManager.LoadPlugin(path): [err, plugins, metadata]
LoadPlugin(pm, disk, path) ==
    IF validatePluginPath(disk, path) # NoError
    THEN [err |-> "invalid plugin path", plugins |-> pm.plugins, metadata |-> pm.metadata]
    ELSE LET h == calculateFileHash(disk, path) IN
         IF h.err # NoError
         THEN [err |-> "failed to calculate plugin hash", plugins |-> pm.plugins,
               metadata |-> pm.metadata]
         ELSE IF pm.allowedHashes # {} /\ h.hash \notin pm.allowedHashes
         THEN [err |-> "plugin not in allowlist", plugins |-> pm.plugins,
               metadata |-> pm.metadata]
         ELSE [err |-> "native plugin loading not yet implemented",
               plugins |-> pm.plugins, metadata |-> pm.metadata]

\* PluginManager.LoadPluginsFromConfig(pluginPaths): stops at the first error
RECURSIVE LoadPluginsFromConfig(_, _, _, _)
LoadPluginsFromConfig(pm, disk, pluginPaths, i) ==
    IF i > Len(pluginPaths)
    THEN [err |-> NoError, plugins |-> pm.plugins, metadata |-> pm.metadata]
    ELSE LET r == LoadPlugin(pm, disk, pluginPaths[i]) IN
         IF r.err # NoError
         THEN [err |-> "failed to load plugin: " \o r.err, plugins |-> r.plugins,
               metadata |-> r.metadata]
         ELSE LoadPluginsFromConfig([pm EXCEPT !.plugins = r.plugins,
                                                !.metadata = r.metadata],
                                    disk, pluginPaths, i + 1)

\* AddTrustedHash / RemoveTrustedHash
AddTrustedHash(hashes, hash) == hashes \cup {hash}
RemoveTrustedHash(hashes, hash) == hashes \ {hash}


RECURSIVE DetectContextFrom(_, _, _, _)
DetectContextFrom(ps, files, i, consulted) ==
    IF i > Len(ps)
    THEN [context |-> "", pluginName |-> "", found |-> FALSE, consulted |-> consulted]
    ELSE LET r == PluginDetect(ps[i], files) IN
         IF r.found
         THEN [context |-> r.context, pluginName |-> Name(ps[i]), found |-> TRUE,
               consulted |-> Append(consulted, i)]
         ELSE DetectContextFrom(ps, files, i + 1, Append(consulted, i))

\* DetectContext that asks every plugin and keeps the last that detects
RECURSIVE DetectContextLastFrom(_, _, _, _)
DetectContextLastFrom(ps, files, i, best) ==
    IF i > Len(ps) THEN best
    ELSE LET r == PluginDetect(ps[i], files) IN
         DetectContextLastFrom(ps, files, i + 1,
             IF r.found
             THEN [context |-> r.context, pluginName |-> Name(ps[i]), found |-> TRUE,
                   consulted |-> Append(best.consulted, i)]
             ELSE [best EXCEPT !.consulted = Append(best.consulted, i)])

DetectContextLast(ps, files) ==
    DetectContextLastFrom(ps, files, 1,
        [context |-> "", pluginName |-> "", found |-> FALSE, consulted |-> <<>>])

\* pm.DetectContext(dir); consulted lists the plugins whose Detect was called
DetectContext(ps, files) == DetectContextFrom(ps, files, 1, <<>>)

\* one pass of the inner loop of GetContexts over the contexts of one plugin
RECURSIVE addContexts(_, _, _, _)
addContexts(allContexts, plugin, keys, j) ==
    IF j > Len(keys) THEN allContexts
    ELSE LET ctxName        == keys[j]
             ctxConfig      == Contexts(plugin)[ctxName]
             namespacedName == Name(plugin) \o ":" \o ctxName
             withNamespaced == MapSet(allContexts, namespacedName, ctxConfig)
         IN  addContexts(IF ctxName \in DOMAIN withNamespaced
                         THEN withNamespaced
                         ELSE MapSet(withNamespaced, ctxName, ctxConfig),
                         plugin, keys, j + 1)

RECURSIVE getContextsFrom(_, _, _, _)
getContextsFrom(ps, flips, i, allContexts) ==
    IF i > Len(ps) THEN allContexts
    ELSE getContextsFrom(ps, flips, i + 1,
             addContexts(allContexts, ps[i], RangeKeys(Contexts(ps[i]), flips[i]), 1))

\* pm.GetContexts(); flips[i] is the order plugin i's contexts are ranged over
GetContexts(ps, flips) == getContextsFrom(ps, flips, 1, EmptyMap)

-----------------------------------------------------------------------------
(* Configuration (internal/config/config.go)                                 *)
(*                                                                           *)
(* A configuration file on disk is [regular, parses, hasContexts, Contexts]: *)
(* whether it is a regular file, whether its text is YAML the decoder        *)
(* accepts, whether it has a contexts key, and the table it declares.        *)

MaxContexts == 100
MaxCommandsPerContext == 50
MaxCommandLength == 4096
MaxNameLength == 50

CharsOf(s) == { Char(s, i) : i \in 1..Len(s) }

HasSuffix(s, p) == Len(s) >= Len(p) /\ SubSeq(s, Len(s) - Len(p) + 1, Len(s)) = p

isAlphaNumeric(r) ==
    r \in CharsOf("abcdefghijklmnopqrstuvwxyzABCDEFGHIJKLMNOPQRSTUVWXYZ0123456789")

getDefaultConfig ==
    [ Contexts |->
        ("node" :> [Commands |-> ("build" :> "npm run build") @@ ("test" :> "npm test")
                        @@ ("start" :> "npm start") @@ ("dev" :> "npm run dev")
                        @@ ("lint" :> "npm run lint") @@ ("install" :> "npm install")])
     @@ ("go" :> [Commands |-> ("build" :> "go build ./...") @@ ("test" :> "go test ./...")
                        @@ ("run" :> "go run ./cmd/...") @@ ("install" :> "go mod download")
                        @@ ("lint" :> "golangci-lint run") @@ ("fmt" :> "go fmt ./...")])
     @@ ("python" :> [Commands |-> ("test" :> "pytest") @@ ("lint" :> "ruff check .")
                        @@ ("fmt" :> "black .")
                        @@ ("install" :> "pip install -r requirements.txt")
                        @@ ("run" :> "python main.py")])
     @@ ("rust" :> [Commands |-> ("build" :> "cargo build") @@ ("test" :> "cargo test")
                        @@ ("run" :> "cargo run") @@ ("install" :> "cargo fetch")
                        @@ ("lint" :> "cargo clippy") @@ ("fmt" :> "cargo fmt")])
     @@ ("make" :> [Commands |-> ("build" :> "make") @@ ("test" :> "make test")
                        @@ ("clean" :> "make clean")]) ]

\* mergeDefaults: a default context is added only where the file declares no
\* context of that name
mergeDefaults(cfg) ==
    [ Contexts |->
        [ ctxName \in DOMAIN cfg.Contexts \cup DOMAIN getDefaultConfig.Contexts |->
            IF ctxName \in DOMAIN cfg.Contexts THEN cfg.Contexts[ctxName]
            ELSE getDefaultConfig.Contexts[ctxName] ] ]

validateContextName(name) ==
    IF name = "" THEN "empty context name"
    ELSE IF Len(name) > MaxNameLength THEN "context name too long"
    ELSE IF \E r \in CharsOf(name) : ~isAlphaNumeric(r) /\ r # "-" /\ r # "_"
         THEN "context name contains invalid character"
         ELSE NoError

validateCommand(name, command) ==
    IF name = "" THEN "empty command name"
    ELSE IF Len(name) > MaxNameLength THEN "command name too long"
    ELSE IF command = "" THEN "empty command string"
    ELSE IF Len(command) > MaxCommandLength THEN "command string exceeds maximum length"
    ELSE NoError

\* validateConfig: nil or an error; which faulty entry the message names
\* depends on the map order, that there is an error does not
validateConfig(file) ==
    IF ~file.hasContexts THEN "no contexts defined"
    ELSE IF Cardinality(DOMAIN file.Contexts) > MaxContexts THEN "too many contexts"
    ELSE IF \E c \in DOMAIN file.Contexts :
               \/ validateContextName(c) # NoError
               \/ Cardinality(DOMAIN file.Contexts[c].Commands) > MaxCommandsPerContext
               \/ \E n \in DOMAIN file.Contexts[c].Commands :
                      validateCommand(n, file.Contexts[c].Commands[n]) # NoError
         THEN "invalid configuration"
         ELSE NoError

\* validateConfigPath, for paths filepath.Clean leaves as they are
validateConfigPath(path) ==
    IF path = "" THEN "empty path"
    ELSE IF HasPrefix(path, "/") THEN "absolute paths not allowed"
    ELSE IF Contains(path, "..") THEN "directory traversal not allowed"
    ELSE IF ~HasSuffix(path, ".yaml") /\ ~HasSuffix(path, ".yml")
         THEN "config file must have .yaml or .yml extension"
         ELSE NoError

NoConfig == [Contexts |-> EmptyMap]

\* loadFromFile(path): [cfg, err]
loadFromFile(files, path) ==
    IF path \notin DOMAIN files THEN [cfg |-> NoConfig, err |-> "config file not accessible"]
    ELSE IF ~files[path].regular
         THEN [cfg |-> NoConfig, err |-> "config path must be a regular file"]
    ELSE IF ~files[path].parses
         THEN [cfg |-> NoConfig, err |-> "failed to parse config file"]
    ELSE IF validateConfig(files[path]) # NoError
         THEN [cfg |-> NoConfig, err |-> "invalid configuration"]
         ELSE [cfg |-> mergeDefaults(files[path]), err |-> NoError]

LocalConfig == ".toolbox.yaml"
GlobalConfig == "/home/u/.toolbox/config.yaml"

\* config.fileExists: the path is a regular file
configFileExists(files, path) == path \in DOMAIN files /\ files[path].regular

\* config.Load(cfgFile): [cfg, err]
Load(files, cfgFile) ==
    IF cfgFile # ""
    THEN IF validateConfigPath(cfgFile) # NoError
         THEN [cfg |-> NoConfig, err |-> "invalid config path"]
         ELSE loadFromFile(files, cfgFile)
    ELSE IF configFileExists(files, LocalConfig) THEN loadFromFile(files, LocalConfig)
    ELSE IF configFileExists(files, GlobalConfig) THEN loadFromFile(files, GlobalConfig)
    ELSE [cfg |-> getDefaultConfig, err |-> NoError]

-----------------------------------------------------------------------------
(* Command Registry (internal/registry/registry.go) *)

\* Registry.GetCommand that tidies the white space of what it returns
GetCommandNormalized(cfg, context, commandName) ==
    IF "Contexts" \notin DOMAIN cfg
    THEN [command |-> "", err |-> "registry not properly initialized"]
    ELSE IF context \notin DOMAIN cfg.Contexts
    THEN [command |-> "", err |-> "unknown context"]
    ELSE IF commandName \notin DOMAIN cfg.Contexts[context].Commands
         THEN [command |-> "", err |-> "command not defined in context"]
         ELSE [command |-> Join(Fields(cfg.Contexts[context].Commands[commandName]), " "),
               err |-> NoError]

\* Registry.GetCommand(context, commandName): [command, err].  A nil config,
\* or one whose table is nil, is a record with no Contexts field.
GetCommand(cfg, context, commandName) ==
    IF "Contexts" \notin DOMAIN cfg
    THEN [command |-> "", err |-> "registry not properly initialized"]
    ELSE IF context \notin DOMAIN cfg.Contexts
    THEN [command |-> "", err |-> "unknown context"]
    ELSE IF commandName \notin DOMAIN cfg.Contexts[context].Commands
         THEN [command |-> "", err |-> "command not defined in context"]
         ELSE [command |-> cfg.Contexts[context].Commands[commandName], err |-> NoError]

\* Registry.ListCommands(context): [commands, err]; flip is the map order
ListCommands(cfg, context, flip) ==
    IF "Contexts" \notin DOMAIN cfg
    THEN [commands |-> <<>>, err |-> "registry not properly initialized"]
    ELSE IF context \notin DOMAIN cfg.Contexts
    THEN [commands |-> <<>>, err |-> "unknown context"]
    ELSE [commands |-> RangeKeys(cfg.Contexts[context].Commands, flip), err |-> NoError]

\* Registry.ListContexts as it was before the nil checks were added
\* (internal/registry/registry.go without "nil safety"): a nil config is
\* dereferenced (the panic stands in the place of the list), a nil table is
\* ranged over as an empty one
ListContextsUnchecked(cfg, flip) ==
    IF "isNil" \in DOMAIN cfg THEN <<"panic: nil pointer dereference">>
    ELSE IF "Contexts" \notin DOMAIN cfg THEN <<>>
    ELSE RangeKeys(cfg.Contexts, flip)


\* Registry.ListContexts(); flip is the map order
ListContexts(cfg, flip) ==
    IF "Contexts" \notin DOMAIN cfg THEN <<>>
    ELSE RangeKeys(cfg.Contexts, flip)

-----------------------------------------------------------------------------
(* Dispatcher (internal/cli/root.go, internal/cli/plugin_cmd.go) *)

MaxArgumentLength == 8192
MaxArgumentCount == 100
DefaultCommandTimeout == "10m"

\* getPluginManager(): the three compiled-in plugins registered in order, the
\* errors of RegisterPlugin dropped; flips[i] is the map order of the i-th call
getPluginManager(flips) ==
    LET pm1 == RegisterPlugin(NewPluginManager, NewDockerPlugin, flips[1])
        pm2 == RegisterPlugin(pm1, NewKubernetesPlugin, flips[2])
        pm3 == RegisterPlugin(pm2, NewUbuntuPlugin, flips[3])
    IN  [plugins |-> pm3.plugins, metadata |-> pm3.metadata]

\* containsDangerousPatterns (the back quote cannot be written in a string here)
containsDangerousPatterns(s) ==
    \E c \in {";", "|", "&", "$", "(", ")", "<", ">", "\n", "\r"} : Contains(s, c)

\* validateArguments with the limits themselves refused
validateArgumentsStrict(a, isVerbose) ==
    IF Len(a) >= MaxArgumentCount
    THEN [err |-> "too many arguments", warned |-> <<>>]
    ELSE IF \E i \in 1..Len(a) : Len(a[i]) >= MaxArgumentLength
         THEN [err |-> "argument exceeds maximum length", warned |-> <<>>]
         ELSE [ err |-> NoError,
                warned |-> SelectSeq(a, LAMBDA x : isVerbose /\ containsDangerousPatterns(x)) ]

\* validateArguments(args): the error, and the arguments warned about when verbose
validateArguments(a, isVerbose) ==
    IF Len(a) > MaxArgumentCount
    THEN [err |-> "too many arguments", warned |-> <<>>]
    ELSE IF \E i \in 1..Len(a) : Len(a[i]) > MaxArgumentLength
         THEN LET first == CHOOSE i \in 1..Len(a) :
                              /\ Len(a[i]) > MaxArgumentLength
                              /\ \A j \in 1..(i - 1) : Len(a[j]) <= MaxArgumentLength
              IN  [ err |-> "argument exceeds maximum length",
                    warned |-> SelectSeq(SubSeq(a, 1, first - 1),
                                         LAMBDA x : isVerbose /\ containsDangerousPatterns(x)) ]
         ELSE [ err |-> NoError,
                warned |-> SelectSeq(a, LAMBDA x : isVerbose /\ containsDangerousPatterns(x)) ]

\* time.ParseDuration for the forms <digits><unit> and "0"
ParseDuration(s) ==
    LET digits == { i \in 1..Len(s) : \A j \in 1..i : Char(s, j) \in CharsOf("0123456789") }
        n      == Cardinality(digits)
    IN  s = "0" \/ (n >= 1 /\ SubSeq(s, n + 1, Len(s)) \in {"ns", "us", "ms", "s", "m", "h"})

knownCommands == {"plugin", "completion", "help", "status"}

\* the loop of Execute over the tokens before "--": the first token with no
\* leading "-" seen while cmdName is empty becomes cmdName, every other
\* token is a tb flag
RECURSIVE splitBeforeSeparator(_, _, _, _)
splitBeforeSeparator(beforeSep, i, cmdName, tbFlags) ==
    IF i > Len(beforeSep) THEN [cmdName |-> cmdName, tbFlags |-> tbFlags]
    ELSE IF ~HasPrefix(beforeSep[i], "-") /\ cmdName = ""
         THEN splitBeforeSeparator(beforeSep, i + 1, beforeSep[i], tbFlags)
         ELSE splitBeforeSeparator(beforeSep, i + 1, cmdName, Append(tbFlags, beforeSep[i]))

\* Execute, "Handle -- separator"
rewriteSeparator(a) ==
    IF \A i \in 1..Len(a) : a[i] # "--" THEN a
    ELSE LET separatorIdx == CHOOSE i \in 1..Len(a) :
                                 a[i] = "--" /\ \A j \in 1..(i - 1) : a[j] # "--"
             split == splitBeforeSeparator(SubSeq(a, 1, separatorIdx - 1), 1, "", << >>)
         IN  IF split.cmdName # ""
             THEN split.tbFlags \o <<split.cmdName>> \o SubSeq(a, separatorIdx + 1, Len(a))
             ELSE a

\* Execute, "Pre-process args to handle --help on dynamic commands"
rewriteHelp(a) ==
    IF /\ Len(a) >= 2
       /\ a[1] \notin knownCommands
       /\ \E i \in 2..Len(a) : a[i] = "--help" \/ a[i] = "-h"
    THEN <<"help", a[1]>>
    ELSE a

\* Execute with the help rewrite left out: only the separator is handled
ExecuteWithoutHelpRewrite(a) == rewriteSeparator(a)


\* Execute(): os.Args[1:] as rootCmd.Execute() finds it
Execute(a) == rewriteHelp(rewriteSeparator(a))

\* the package-level flag variables and the locals of handleDynamicCommand
HDCIdle ==
    [ commandName |-> "", subcommand |-> "", cfgFile |-> "", forceCtx |-> "", dryRun |-> FALSE,
      verbose |-> FALSE, commandTimeout |-> DefaultCommandTimeout,
      cfg |-> NoConfig, detectedCtx |-> "", pluginName |-> "",
      err |-> NoError, help |-> "", out |-> <<>>, warned |-> <<>>, trace |-> <<>> ]

parseStart ==
    [ commandName |-> "", commandArgs |-> <<>>, foundCommand |-> FALSE,
      cfgFile |-> "", forceCtx |-> "", dryRun |-> FALSE, verbose |-> FALSE,
      commandTimeout |-> DefaultCommandTimeout, ret |-> "" ]

\* the flag-parsing loop that goes on reading tb's flags after the command
\* name
RECURSIVE parseLoopFlagsAnywhere(_, _, _)
parseLoopFlagsAnywhere(a, i, st) ==
    IF i > Len(a) THEN st
    ELSE LET arg == a[i] IN
         IF arg = "--version" /\ ~st.foundCommand THEN [st EXCEPT !.ret = "version"]
         ELSE IF (arg = "--help" \/ arg = "-h") /\ ~st.foundCommand
              THEN [st EXCEPT !.ret = "help"]
         ELSE IF arg = "--config" /\ i + 1 <= Len(a)
              THEN parseLoopFlagsAnywhere(a, i + 2, [st EXCEPT !.cfgFile = a[i + 1]])
         ELSE IF arg = "--context" /\ i + 1 <= Len(a)
              THEN parseLoopFlagsAnywhere(a, i + 2, [st EXCEPT !.forceCtx = a[i + 1]])
         ELSE IF arg = "--dry-run"
              THEN parseLoopFlagsAnywhere(a, i + 1, [st EXCEPT !.dryRun = TRUE])
         ELSE IF arg = "--verbose"
              THEN parseLoopFlagsAnywhere(a, i + 1, [st EXCEPT !.verbose = TRUE])
         ELSE IF arg = "--timeout" /\ i + 1 <= Len(a)
              THEN IF ~ParseDuration(a[i + 1])
                   THEN [st EXCEPT !.ret = "invalid timeout duration"]
                   ELSE parseLoopFlagsAnywhere(a, i + 2,
                                               [st EXCEPT !.commandTimeout = a[i + 1]])
         ELSE IF st.foundCommand
              THEN parseLoopFlagsAnywhere(a, i + 1, [st EXCEPT !.commandArgs = Append(@, arg)])
         ELSE parseLoopFlagsAnywhere(a, i + 1,
                                     [st EXCEPT !.commandName = arg, !.foundCommand = TRUE])


\* the flag-parsing loop of handleDynamicCommand; ret names an early return
RECURSIVE parseLoop(_, _, _)
parseLoop(a, i, st) ==
    IF i > Len(a) THEN st
    ELSE LET arg == a[i] IN
         IF st.foundCommand
         THEN parseLoop(a, i + 1, [st EXCEPT !.commandArgs = Append(@, arg)])
         ELSE IF arg = "--version" THEN [st EXCEPT !.ret = "version"]
         ELSE IF arg = "--help" \/ arg = "-h" THEN [st EXCEPT !.ret = "help"]
         ELSE IF arg = "--config" /\ i + 1 <= Len(a)
              THEN parseLoop(a, i + 2, [st EXCEPT !.cfgFile = a[i + 1]])
         ELSE IF arg = "--context" /\ i + 1 <= Len(a)
              THEN parseLoop(a, i + 2, [st EXCEPT !.forceCtx = a[i + 1]])
         ELSE IF arg = "--dry-run" THEN parseLoop(a, i + 1, [st EXCEPT !.dryRun = TRUE])
         ELSE IF arg = "--verbose" THEN parseLoop(a, i + 1, [st EXCEPT !.verbose = TRUE])
         ELSE IF arg = "--timeout" /\ i + 1 <= Len(a)
              THEN IF ~ParseDuration(a[i + 1])
                   THEN [st EXCEPT !.ret = "invalid timeout duration"]
                   ELSE parseLoop(a, i + 2, [st EXCEPT !.commandTimeout = a[i + 1]])
         ELSE parseLoop(a, i + 1, [st EXCEPT !.commandName = arg, !.foundCommand = TRUE])

\* the entries of the working directory, as a plugin's Detect(".") sees them
cwdEntries(files, dir) ==
    { [name |-> e.name, isDir |-> e.isDir] : e \in { x \in files : x.dir = dir } }

\* built-in detection tried before the plugins
detectedCtxBuiltinFirst(forceCtx, ps, files, dir) ==
    IF forceCtx # ""
    THEN [ctx |-> forceCtx, pluginName |-> "", err |-> NoError, calls |-> <<>>]
    ELSE LET b == Detect(files, dir) IN
         IF b.found
         THEN [ctx |-> b.context, pluginName |-> "", err |-> NoError, calls |-> <<"Detect">>]
         ELSE LET p == DetectContext(ps, cwdEntries(files, dir)) IN
              IF p.found
              THEN [ctx |-> p.context, pluginName |-> p.pluginName, err |-> NoError,
                    calls |-> <<"Detect", "DetectContext">>]
              ELSE [ctx |-> "", pluginName |-> "", err |-> "failed to detect context",
                    calls |-> <<"Detect", "DetectContext">>]

\* "Detect context (or use forced context)": the context, the plugin that
\* detected it, the error, and the detection calls made, in order
detectedCtx(forceCtx, ps, files, dir) ==
    IF forceCtx # ""
    THEN [ctx |-> forceCtx, pluginName |-> "", err |-> NoError, calls |-> <<>>]
    ELSE LET p == DetectContext(ps, cwdEntries(files, dir)) IN
         IF p.found
         THEN [ctx |-> p.context, pluginName |-> p.pluginName, err |-> NoError,
               calls |-> <<"DetectContext">>]
         ELSE LET b == Detect(files, dir) IN
              IF ~b.found
              THEN [ctx |-> "", pluginName |-> "", err |-> "failed to detect context",
                    calls |-> <<"DetectContext", "Detect">>]
              ELSE [ctx |-> b.context, pluginName |-> "", err |-> NoError,
                    calls |-> <<"DetectContext", "Detect">>]

\* the merge with the precedence turned round: a plugin's key replaces the
\* configuration's
mergePluginContextsOverwrite(cfg, pluginContexts) ==
    [ Contexts |->
        [ ctxName \in DOMAIN cfg.Contexts \cup DOMAIN pluginContexts |->
            IF ctxName \in DOMAIN pluginContexts THEN pluginContexts[ctxName]
            ELSE cfg.Contexts[ctxName] ] ]

\* the plugin contexts merged into the loaded configuration: a key is added
\* only if the configuration has none of that name
mergePluginContexts(cfg, pluginContexts) ==
    [ Contexts |->
        [ ctxName \in DOMAIN cfg.Contexts \cup DOMAIN pluginContexts |->
            IF ctxName \in DOMAIN cfg.Contexts THEN cfg.Contexts[ctxName]
            ELSE pluginContexts[ctxName] ] ]


\* showCommandInAllContexts: the contexts that define the command are listed,
\* or the command is found in none
showCommandInAllContexts(commandName, cfg) ==
    IF \A ctxName \in DOMAIN cfg.Contexts :
           commandName \notin DOMAIN cfg.Contexts[ctxName].Commands
    THEN [help |-> "", err |-> "command not found in any context"]
    ELSE [help |-> commandName, err |-> NoError]

\* showHelp(cmd, args): [help, err], help being what the help is about ("tb"
\* for the root help); the configuration is loaded, the plugin contexts are
\* merged and the context is detected as handleDynamicCommand does it
showHelp(a, files, cfgFile, forceCtx, entries, dir, flips, ranges) ==
    IF Len(a) = 0 THEN [help |-> "tb", err |-> NoError]
    ELSE LET commandName == a[1]
             l == Load(files, cfgFile)
         IN  IF l.err # NoError
             THEN [help |-> "", err |-> "failed to load config: " \o l.err]
             ELSE LET pm  == getPluginManager(flips)
                      cfg == mergePluginContexts(l.cfg, GetContexts(pm.plugins, ranges))
                      d   == detectedCtx(forceCtx, pm.plugins, entries, dir)
                  IN  IF d.err # NoError THEN showCommandInAllContexts(commandName, cfg)
                      ELSE IF d.ctx \notin DOMAIN cfg.Contexts
                      THEN [help |-> "", err |-> "context not found"]
                      ELSE IF commandName \notin DOMAIN cfg.Contexts[d.ctx].Commands
                      THEN showCommandInAllContexts(commandName, cfg)
                      ELSE [help |-> commandName, err |-> NoError]

helpStart ==
    [ cfgFile |-> "", forceCtx |-> "", dryRun |-> FALSE, verbose |-> FALSE,
      commandTimeout |-> DefaultCommandTimeout, helpVal |-> FALSE,
      positional |-> << >>, ret |-> "" ]

\* the flags of the help command, which inherits the persistent flags init()
\* defines on rootCmd and, unlike rootCmd, has them parsed for it: --config,
\* --context and --timeout take a value, --dry-run, --verbose and -v are
\* switches, --help and -h ask for the command's own help, "--" ends the
\* flags, any other token with a leading "-" is an unknown flag
RECURSIVE helpFlags(_, _, _)
helpFlags(a, i, st) ==
    IF i > Len(a) THEN st
    ELSE LET arg == a[i] IN
         IF arg = "--"
         THEN [st EXCEPT !.positional = @ \o SubSeq(a, i + 1, Len(a))]
         ELSE IF arg \in {"--config", "--context", "--timeout"} /\ i = Len(a)
         THEN [st EXCEPT !.ret = "flag needs an argument"]
         ELSE IF arg = "--config" THEN helpFlags(a, i + 2, [st EXCEPT !.cfgFile = a[i + 1]])
         ELSE IF arg = "--context" THEN helpFlags(a, i + 2, [st EXCEPT !.forceCtx = a[i + 1]])
         ELSE IF arg = "--timeout"
              THEN IF ~ParseDuration(a[i + 1])
                   THEN [st EXCEPT !.ret = "invalid argument for flag"]
                   ELSE helpFlags(a, i + 2, [st EXCEPT !.commandTimeout = a[i + 1]])
         ELSE IF arg = "--dry-run" THEN helpFlags(a, i + 1, [st EXCEPT !.dryRun = TRUE])
         ELSE IF arg \in {"--verbose", "-v"}
              THEN helpFlags(a, i + 1, [st EXCEPT !.verbose = TRUE])
         ELSE IF arg \in {"--help", "-h"}
              THEN helpFlags(a, i + 1, [st EXCEPT !.helpVal = TRUE])
         ELSE IF HasPrefix(arg, "-") /\ arg # "-" THEN [st EXCEPT !.ret = "unknown flag"]
         ELSE helpFlags(a, i + 1, [st EXCEPT !.positional = Append(@, arg)])

\* helpCmd run on the tokens after "help": the flags, then showHelp on what
\* is left; the result carries the flag variables as the parse left them
helpCmd(a, files, entries, dir, flips, ranges) ==
    LET st == helpFlags(a, 1, helpStart)
        r  == IF st.ret # "" THEN [help |-> "", err |-> st.ret]
              ELSE IF st.helpVal THEN [help |-> "help", err |-> NoError]
              ELSE showHelp(st.positional, files, st.cfgFile, st.forceCtx,
                            entries, dir, flips, ranges)
    IN  [ help |-> r.help, err |-> r.err, cfgFile |-> st.cfgFile, forceCtx |-> st.forceCtx,
          dryRun |-> st.dryRun, verbose |-> st.verbose,
          commandTimeout |-> st.commandTimeout ]


\* what dry-run and verbose print once the command is resolved
resolutionLines(ctx, command, commandArgs) ==
    << "Context: " \o ctx, "Base command: " \o command >>
    \o (IF Len(commandArgs) > 0
        THEN << "Additional arguments: " \o Join(commandArgs, " ") >>
        ELSE << >>)

-----------------------------------------------------------------------------
(* SpecDetect: Detect applied to every bounded directory chain *)

MarkerNames == UNION { { markers[c][j] : j \in 1..Len(markers[c]) } : c \in DOMAIN markers }

Levels == 0..MaxDepth

\* regular files named as markers or not, and directories named like markers
Placements ==
    { [dir |-> d, name |-> n, isDir |-> FALSE] :
          d \in Levels, n \in MarkerNames \cup {"README.md"} }
    \cup { [dir |-> d, name |-> "go.mod", isDir |-> TRUE] : d \in Levels }

\* chains holding at most two entries
FileSets == { {} } \cup { {a, b} : a, b \in Placements }

InitDetect ==
    /\ fs \in FileSets
    /\ startDir \in Levels
    /\ detectResult = DetectIdle
    /\ dpc = "call"
    /\ dMarkers = markers
    /\ baseCommand = "" /\ userArgs = <<>> /\ execResult = ExecIdle /\ xpc = "off"
    /\ osOutcome = OsIdle /\ regConfig = NilConfig /\ regCall = NoCall
    /\ plugins = <<>> /\ metadata = EmptyMap /\ pmDir = {} /\ pmCall = NoCall
    /\ allowedHashes = {}
    /\ cliArgs = <<>> /\ configFiles = EmptyMap /\ locals = HDCIdle /\ hpc = "off"
    /\ osArgs = <<>>

DetectCall ==
    /\ dpc = "call"
    /\ detectResult' = Detect(fs, startDir)
    /\ dpc' = "done"
    /\ UNCHANGED <<fs, startDir, dMarkers>>
    /\ UNCHANGED <<execVars, pmVars, hdcVars, regVars>>

NextDetect == DetectCall

-----------------------------------------------------------------------------
(* SpecAddMarker: a Detector given custom markers, then asked to detect *)

\* the most AddMarker calls made on one Detector
MaxAdded == 2

\* context names AddMarker is called with: in the priority list or not
AddContexts == {"customctx", "docker", "go", "make"}

\* marker files AddMarker is called with: new names and one that is a
\* built-in marker already
AddFiles == {"custom.config", "app.cfg", "go.mod"}

\* the start directory and its parent, holding at most two regular files
AddPlacements ==
    { [dir |-> d, name |-> n, isDir |-> FALSE] :
          d \in 0..1, n \in AddFiles \cup {"Makefile", "README.md"} }

AddFileSets == { {} } \cup { {a, b} : a, b \in AddPlacements }

\* the number of marker files in a marker table
RECURSIVE MarkerCount(_, _)
MarkerCount(ms, S) ==
    IF S = {} THEN 0
    ELSE LET c == CHOOSE x \in S : TRUE IN Len(ms[c]) + MarkerCount(ms, S \ {c})

InitAddMarker ==
    /\ dMarkers = markers
    /\ fs \in AddFileSets
    /\ startDir = 1
    /\ detectResult = DetectIdle
    /\ dpc = "call"
    /\ baseCommand = "" /\ userArgs = <<>> /\ execResult = ExecIdle /\ xpc = "off"
    /\ osOutcome = OsIdle /\ regConfig = NilConfig /\ regCall = NoCall
    /\ plugins = <<>> /\ metadata = EmptyMap /\ pmDir = {} /\ pmCall = NoCall
    /\ allowedHashes = {}
    /\ cliArgs = <<>> /\ configFiles = EmptyMap /\ locals = HDCIdle /\ hpc = "off"
    /\ osArgs = <<>>

AMAddMarker ==
    /\ dpc = "call"
    /\ MarkerCount(dMarkers, DOMAIN dMarkers) < MarkerCount(markers, DOMAIN markers) + MaxAdded
    /\ \E context \in AddContexts, markerFile \in AddFiles :
          dMarkers' = AddMarker(dMarkers, context, markerFile)
    /\ UNCHANGED <<fs, startDir, detectResult, dpc>>
    /\ UNCHANGED <<execVars, pmVars, hdcVars, regVars>>

AMDetect ==
    /\ dpc = "call"
    /\ detectResult' = Detect(fs, startDir)
    /\ dpc' = "done"
    /\ UNCHANGED <<fs, startDir, dMarkers>>
    /\ UNCHANGED <<execVars, pmVars, hdcVars, regVars>>

NextAddMarker == AMAddMarker \/ AMDetect

SpecAddMarker ==
    /\ InitAddMarker
    /\ [][NextAddMarker]_vars

-----------------------------------------------------------------------------
(* SpecPM: a Plugin Manager its callers register plugins with and query *)

CfgA == [Commands |-> ("build" :> "make a")]
CfgB == [Commands |-> ("build" :> "make b")]
CfgC == [Commands |-> ("build" :> "make c") @@ ("test" :> "make check")]

\* an implementer of Plugin outside the package
Implementer(kind, name, version, contexts, marker, detects) ==
    [kind |-> kind, name |-> name, version |-> version, contexts |-> contexts,
     marker |-> marker, detects |-> detects]

\* the compiled-in plugins, their zero values, and other implementers
PluginPool ==
    { NewDockerPlugin, NewKubernetesPlugin, NewUbuntuPlugin,
      [kind |-> "docker", name |-> "", version |-> "", contexts |-> DockerContexts],
      [kind |-> "kubernetes", name |-> "", version |-> "", contexts |-> KubernetesContexts],
      [kind |-> "ubuntu", name |-> "", version |-> "", contexts |-> UbuntuContexts],
      Implementer("my", "a", "1", ("x" :> CfgA), "Dockerfile", "x"),
      Implementer("my", "b", "1", ("x" :> CfgB) @@ ("a:x" :> CfgC), "deployment.yaml", "x"),
      Implementer("my", "a:b", "1", ("c" :> CfgB), "Chart.yaml", "c"),
      Implementer("static", "a", "2", ("b:c" :> CfgC) @@ ("x" :> CfgC), "Dockerfile", "x"),
      Implementer("static", "e", "1", EmptyMap, "e.yml", "none"),
      Implementer("my", "g", "1", EmptyMap, "g.yml", "none"),
      Implementer("static", "h", "1", ("x" :> CfgA) @@ ("y" :> [Commands |-> EmptyMap]),
                  "h.yml", "y"),
      Implementer("my", "j", "1", ("y" :> [Commands |-> EmptyMap]), "j.yml", "y"),
      Implementer("static", "", "1", ("x" :> CfgA), "Dockerfile", "x"),
      Implementer("my", "l", "", ("x" :> CfgA), "Dockerfile", "x") }

File(n) == [name |-> n, isDir |-> FALSE]

\* directories DetectContext is asked about
DirPool ==
    { {},
      {File("Dockerfile")},
      {File("deployment.yaml")},
      {File("Dockerfile"), File("deployment.yaml")},
      {File("docker-compose.yml"), File("Chart.yaml"), File("debian/changelog")},
      {[name |-> "Dockerfile", isDir |-> TRUE], File("debian/control")} }

InitPM ==
    /\ plugins = NewPluginManager.plugins
    /\ metadata = NewPluginManager.metadata
    /\ pmDir \in DirPool
    /\ pmCall = NoCall
    /\ allowedHashes = {}
    /\ baseCommand = "" /\ userArgs = <<>> /\ execResult = ExecIdle /\ xpc = "off"
    /\ osOutcome = OsIdle /\ regConfig = NilConfig /\ regCall = NoCall
    /\ fs = {} /\ startDir = 0 /\ detectResult = DetectIdle /\ dpc = "off"
    /\ dMarkers = markers
    /\ cliArgs = <<>> /\ configFiles = EmptyMap /\ locals = HDCIdle /\ hpc = "off"
    /\ osArgs = <<>>

PMRegisterPlugin ==
    \E plugin \in PluginPool, flip \in BOOLEAN :
        LET r == RegisterPlugin([plugins |-> plugins, metadata |-> metadata], plugin, flip) IN
        /\ Len(r.plugins) <= MaxPlugins
        /\ plugins' = r.plugins
        /\ metadata' = r.metadata
        /\ pmCall' = [op |-> "RegisterPlugin", plugin |-> plugin, err |-> r.err]
        /\ UNCHANGED <<pmDir, allowedHashes>>
        /\ UNCHANGED <<execVars, detectVars, hdcVars, regVars>>

PMDetectContext ==
    /\ pmCall' = [op |-> "DetectContext", result |-> DetectContext(plugins, pmDir)]
    /\ UNCHANGED <<plugins, metadata, pmDir, allowedHashes>>
    /\ UNCHANGED <<execVars, detectVars, hdcVars, regVars>>

PMGetContexts ==
    \E flips \in [1..Len(plugins) -> BOOLEAN] :
        /\ pmCall' = [op |-> "GetContexts", result |-> GetContexts(plugins, flips)]
        /\ UNCHANGED <<plugins, metadata, pmDir, allowedHashes>>
        /\ UNCHANGED <<execVars, detectVars, hdcVars, regVars>>

NextPM == PMRegisterPlugin \/ PMDetectContext \/ PMGetContexts

-----------------------------------------------------------------------------
(* SpecLoad: a Plugin Manager asked to load plugins from files *)

MaxPaths == 2

\* plugin files on disk: path -> [regular, readable, hash]
PluginDisk ==
    ("p.so" :> [regular |-> TRUE, readable |-> TRUE, hash |-> "h1"])
    @@ ("lib/q.dll" :> [regular |-> TRUE, readable |-> TRUE, hash |-> "h2"])
    @@ ("locked.so" :> [regular |-> TRUE, readable |-> FALSE, hash |-> "h1"])
    @@ ("d.so" :> [regular |-> FALSE, readable |-> FALSE, hash |-> ""])
    @@ ("p.txt" :> [regular |-> TRUE, readable |-> TRUE, hash |-> "h1"])

LoadPaths == DOMAIN PluginDisk \cup {"../p.so", "missing.so"}

Hashes == {"h1", "h2"}

InitLoad ==
    /\ plugins = NewPluginManager.plugins
    /\ metadata = NewPluginManager.metadata
    /\ allowedHashes = {}
    /\ pmDir = {}
    /\ pmCall = [op |-> "NewPluginManager"]
    /\ baseCommand = "" /\ userArgs = <<>> /\ execResult = ExecIdle /\ xpc = "off"
    /\ osOutcome = OsIdle /\ regConfig = NilConfig /\ regCall = NoCall
    /\ fs = {} /\ startDir = 0 /\ detectResult = DetectIdle /\ dpc = "off"
    /\ dMarkers = markers
    /\ cliArgs = <<>> /\ configFiles = EmptyMap /\ locals = HDCIdle /\ hpc = "off"
    /\ osArgs = <<>>

\* a call of RegisterPlugin as getPluginManager makes it
LDRegisterPlugin ==
    \E plugin \in {NewDockerPlugin, NewKubernetesPlugin, NewUbuntuPlugin}, flip \in BOOLEAN :
        LET r == RegisterPlugin([plugins |-> plugins, metadata |-> metadata], plugin, flip) IN
        /\ Len(r.plugins) <= MaxPlugins
        /\ plugins' = r.plugins
        /\ metadata' = r.metadata
        /\ pmCall' = [op |-> "RegisterPlugin", plugin |-> plugin, err |-> r.err]
        /\ UNCHANGED <<pmDir, allowedHashes>>
        /\ UNCHANGED <<execVars, detectVars, hdcVars, regVars>>

LDAddTrustedHash ==
    \E hash \in Hashes :
        /\ allowedHashes' = AddTrustedHash(allowedHashes, hash)
        /\ pmCall' = [op |-> "AddTrustedHash", hash |-> hash]
        /\ UNCHANGED <<plugins, metadata, pmDir>>
        /\ UNCHANGED <<execVars, detectVars, hdcVars, regVars>>

LDRemoveTrustedHash ==
    \E hash \in Hashes :
        /\ allowedHashes' = RemoveTrustedHash(allowedHashes, hash)
        /\ pmCall' = [op |-> "RemoveTrustedHash", hash |-> hash]
        /\ UNCHANGED <<plugins, metadata, pmDir>>
        /\ UNCHANGED <<execVars, detectVars, hdcVars, regVars>>

LDLoadPlugin ==
    \E path \in LoadPaths :
        LET r == LoadPlugin([plugins |-> plugins, metadata |-> metadata,
                             allowedHashes |-> allowedHashes], PluginDisk, path) IN
        /\ plugins' = r.plugins
        /\ metadata' = r.metadata
        /\ pmCall' = [op |-> "LoadPlugin", paths |-> <<path>>, err |-> r.err]
        /\ UNCHANGED <<pmDir, allowedHashes>>
        /\ UNCHANGED <<execVars, detectVars, hdcVars, regVars>>

LDLoadPluginsFromConfig ==
    \E pluginPaths \in SeqsUpTo(LoadPaths, MaxPaths) :
        LET r == LoadPluginsFromConfig([plugins |-> plugins, metadata |-> metadata,
                                        allowedHashes |-> allowedHashes],
                                       PluginDisk, pluginPaths, 1) IN
        /\ plugins' = r.plugins
        /\ metadata' = r.metadata
        /\ pmCall' = [op |-> "LoadPluginsFromConfig", paths |-> pluginPaths, err |-> r.err]
        /\ UNCHANGED <<pmDir, allowedHashes>>
        /\ UNCHANGED <<execVars, detectVars, hdcVars, regVars>>

NextLoad ==
    \/ LDRegisterPlugin
    \/ LDAddTrustedHash
    \/ LDRemoveTrustedHash
    \/ LDLoadPlugin
    \/ LDLoadPluginsFromConfig

SpecLoad ==
    /\ InitLoad
    /\ [][NextLoad]_vars

-----------------------------------------------------------------------------

(* SpecExec: the executor applied to every bounded input *)

BaseAlphabet == {"g", " ", ";"}

\* longer invocation strings, as configurations and plugins declare them
BasePool == { "go build ./...", "npm\trun  build ", "bash s.sh gbranch",
              "docker build -t $(basename $(pwd)) .", "  " }

BaseStrings == StringsUpTo(BaseAlphabet, MaxBaseLen) \cup BasePool

ArgPool == { "", "a b", "; rm -rf /", "$(x)|y&&z" }

ArgLists == SeqsUpTo(ArgPool, MaxArgs)

InitExec ==
    /\ baseCommand \in BaseStrings
    /\ userArgs \in ArgLists
    /\ execResult = ExecIdle
    /\ xpc = "call"
    /\ osOutcome = OsIdle /\ regConfig = NilConfig /\ regCall = NoCall
    /\ fs = {} /\ startDir = 0 /\ detectResult = DetectIdle /\ dpc = "off"
    /\ dMarkers = markers
    /\ plugins = <<>> /\ metadata = EmptyMap /\ pmDir = {} /\ pmCall = NoCall
    /\ allowedHashes = {}
    /\ cliArgs = <<>> /\ configFiles = EmptyMap /\ locals = HDCIdle /\ hpc = "off"
    /\ osArgs = <<>>

ExecCall ==
    /\ xpc = "call"
    /\ \E os \in OsOutcomes :
          /\ osOutcome' = os
          /\ execResult' = executeCommandSecure(baseCommand, userArgs, os.found, os.run)
    /\ xpc' = "done"
    /\ UNCHANGED <<baseCommand, userArgs>>
    /\ UNCHANGED <<detectVars, pmVars, hdcVars, regVars>>

NextExec == ExecCall

-----------------------------------------------------------------------------
(* SpecDispatch: one invocation of handleDynamicCommand, step by step *)

\* tb's own flags, as they may come before the command name
FlagPrefixes ==
    { << >>, <<"--dry-run">>, <<"--verbose">>, <<"--context", "go">>,
      <<"--context", "docker">>, <<"--context", "nope">>, <<"--context", "">>,
      <<"--help">>, <<"--version">>, <<"--timeout", "5s">>, <<"--timeout", "soon">>,
      <<"--config", "c.yaml">>, <<"--config", "/etc/passwd">>, <<"--frob">>,
      <<"--verbose", "--config", "c.yaml", "--context", "custom">> }

CommandNames == {"build", "nosuch"}

RECURSIVE Repeat(_, _)
Repeat(s, n) ==
    IF n = 0 THEN ""
    ELSE IF n % 2 = 0 THEN LET half == Repeat(s, n \div 2) IN half \o half
    ELSE s \o Repeat(s, n - 1)

\* caller arguments: metacharacters and white space, and flag look-alikes
CallerArgLists ==
    SeqsUpTo({"; rm -rf /", "$(x)|y&&z a"}, MaxArgs)
    \cup { <<"--dry-run">>, <<"-h">>, <<"x", "--help">> }

\* lists and arguments at the limits of validateArguments and one past them
LimitArgLists ==
    { [i \in 1..n |-> "a"] : n \in {MaxArgumentCount, MaxArgumentCount + 1} }
    \cup { << "; x", Repeat("a", n) >> : n \in {MaxArgumentLength, MaxArgumentLength + 1} }

\* invocations that use the "--" separator
SeparatorLists ==
    { <<"build", "--", "; rm -rf /">>, <<"--context", "go", "build", "--", "x">>,
      <<"--dry-run", "build", "--", "--help">>, <<"build", "--">>, <<"--", "build">>,
      <<"--verbose", "build", "--", "--dry-run", "-v">>,
      <<"--timeout", "5s", "build", "--", "x">>,
      <<"--dry-run", "--config", "c.yaml", "build", "--", "x", "y">> }

TokenLists ==
    FlagPrefixes
    \cup { p \o <<c>> \o a : p \in FlagPrefixes, c \in CommandNames, a \in CallerArgLists }
    \cup { p \o <<"build">> \o a : p \in {<< >>, <<"--verbose">>, <<"--dry-run">>},
                                   a \in LimitArgLists }
    \cup SeparatorLists
    \cup { <<"help", "build">>, <<"status">> }

Entry(d, n) == [dir |-> d, name |-> n, isDir |-> FALSE]

\* working directories: the chain of directories and the level of "."
WorkDirs ==
    { [fs |-> {}, startDir |-> 1],
      [fs |-> {Entry(1, "go.mod")}, startDir |-> 1],
      [fs |-> {Entry(1, "go.mod"), Entry(1, "Dockerfile")}, startDir |-> 1],
      [fs |-> {Entry(0, "package.json")}, startDir |-> 1],
      [fs |-> {Entry(1, "debian/control"), Entry(1, "Makefile")}, startDir |-> 1],
      [fs |-> {Entry(0, "go.mod"), Entry(2, "deployment.yaml")}, startDir |-> 2] }

ConfigFile(contexts) ==
    [regular |-> TRUE, parses |-> TRUE, hasContexts |-> TRUE, Contexts |-> contexts]

\* what is on disk where config.Load looks
ConfigDisks ==
    { EmptyMap,
      (LocalConfig :> ConfigFile(
            ("go" :> [Commands |-> ("build" :> "go build -v ./...")])
         @@ ("docker" :> [Commands |-> ("build" :> "podman build .")])))
      @@ ("c.yaml" :> ConfigFile("custom" :> [Commands |-> ("build" :> "bash -c make")])),
      (LocalConfig :> [regular |-> TRUE, parses |-> FALSE, hasContexts |-> FALSE,
                       Contexts |-> EmptyMap]) }

InitDispatch ==
    /\ osArgs \in TokenLists
    /\ cliArgs = << >>
    /\ configFiles \in ConfigDisks
    /\ \E w \in WorkDirs : fs = w.fs /\ startDir = w.startDir
    /\ locals = HDCIdle
    /\ hpc = "execute"
    /\ baseCommand = "" /\ userArgs = <<>> /\ execResult = ExecIdle /\ xpc = "off"
    /\ osOutcome = OsIdle /\ regConfig = NilConfig /\ regCall = NoCall
    /\ detectResult = DetectIdle /\ dpc = "off"
    /\ dMarkers = markers
    /\ plugins = <<>> /\ metadata = EmptyMap /\ pmDir = {} /\ pmCall = NoCall
    /\ allowedHashes = {}

\* Execute(): the arguments rewritten, then rootCmd.Execute() runs the
\* subcommand the first token names, or handleDynamicCommand
CLIExecute ==
    /\ hpc = "execute"
    /\ cliArgs' = Execute(osArgs)
    /\ IF Len(cliArgs') >= 1 /\ cliArgs'[1] = "help"
       THEN /\ \E flips \in [1..3 -> BOOLEAN], ranges \in [1..3 -> BOOLEAN] :
                  LET r == helpCmd(Tail(cliArgs'), configFiles, fs, startDir, flips, ranges)
                  IN  locals' = [locals EXCEPT !.subcommand = "help",
                                               !.cfgFile = r.cfgFile,
                                               !.forceCtx = r.forceCtx,
                                               !.dryRun = r.dryRun,
                                               !.verbose = r.verbose,
                                               !.commandTimeout = r.commandTimeout,
                                               !.help = r.help,
                                               !.err = r.err]
            /\ hpc' = "done"
       ELSE IF Len(cliArgs') >= 1 /\ cliArgs'[1] \in knownCommands
       THEN locals' = [locals EXCEPT !.subcommand = cliArgs'[1]] /\ hpc' = "done"
       ELSE locals' = locals /\ hpc' = "parse"
    /\ UNCHANGED <<execVars, configFiles, osArgs>>
    /\ UNCHANGED <<detectVars, pmVars, regVars>>

\* the flag-parsing loop, the empty-command check and the help check
HDCParse ==
    /\ hpc = "parse"
    /\ LET st == parseLoop(cliArgs, 1, parseStart)
           flagged == [locals EXCEPT !.commandName = st.commandName,
                                     !.cfgFile = st.cfgFile,
                                     !.forceCtx = st.forceCtx,
                                     !.dryRun = st.dryRun,
                                     !.verbose = st.verbose,
                                     !.commandTimeout = st.commandTimeout]
       IN  /\ userArgs' = st.commandArgs
           /\ IF st.ret = "version"
              THEN /\ locals' = [flagged EXCEPT !.out = <<"ToolBox (tb) version 0.1.0">>]
                   /\ hpc' = "done"
              ELSE IF st.ret = "help"
              THEN locals' = [flagged EXCEPT !.help = "tb"] /\ hpc' = "done"
              ELSE IF st.ret # ""
              THEN locals' = [flagged EXCEPT !.err = st.ret] /\ hpc' = "done"
              ELSE IF st.commandName = ""
              THEN locals' = [flagged EXCEPT !.help = "tb"] /\ hpc' = "done"
              ELSE IF \E i \in 1..Len(st.commandArgs) : st.commandArgs[i] \in {"--help", "-h"}
              THEN /\ \E flips \in [1..3 -> BOOLEAN], ranges \in [1..3 -> BOOLEAN] :
                         LET r == showHelp(<<st.commandName>>, configFiles, st.cfgFile,
                                           st.forceCtx, fs, startDir, flips, ranges)
                         IN  locals' = [flagged EXCEPT !.help = r.help, !.err = r.err]
                   /\ hpc' = "done"
              ELSE locals' = flagged /\ hpc' = "validate"
    /\ UNCHANGED <<baseCommand, execResult, xpc, osOutcome, cliArgs, configFiles, osArgs>>
    /\ UNCHANGED <<detectVars, pmVars, regVars>>

\* the validation step that records its verdict but lets the invocation go on
\* to the configuration and the context
HDCValidateDeferred ==
    /\ hpc = "validate"
    /\ LET v == validateArguments(userArgs, locals.verbose) IN
       /\ locals' = [locals EXCEPT !.warned = v.warned,
                                   !.err = IF v.err = NoError THEN NoError
                                           ELSE "invalid arguments: " \o v.err,
                                   !.trace = Append(@, "validateArguments")]
       /\ hpc' = "load"
    /\ UNCHANGED <<execVars, cliArgs, configFiles, osArgs>>
    /\ UNCHANGED <<detectVars, pmVars, regVars>>


\* "Validate arguments early"
HDCValidate ==
    /\ hpc = "validate"
    /\ LET v == validateArguments(userArgs, locals.verbose) IN
       /\ locals' = [locals EXCEPT !.warned = v.warned,
                                   !.err = IF v.err = NoError THEN NoError
                                           ELSE "invalid arguments: " \o v.err,
                                   !.trace = Append(@, "validateArguments")]
       /\ hpc' = IF v.err = NoError THEN "load" ELSE "done"
    /\ UNCHANGED <<execVars, cliArgs, configFiles, osArgs>>
    /\ UNCHANGED <<detectVars, pmVars, regVars>>

\* "Load configuration"
HDCLoadConfig ==
    /\ hpc = "load"
    /\ LET r == Load(configFiles, locals.cfgFile) IN
       /\ locals' = [locals EXCEPT !.cfg = r.cfg,
                                   !.err = IF r.err = NoError THEN NoError
                                           ELSE "failed to load config: " \o r.err,
                                   !.trace = Append(@, "Load")]
       /\ hpc' = IF r.err = NoError THEN "merge" ELSE "done"
    /\ UNCHANGED <<execVars, cliArgs, configFiles, osArgs>>
    /\ UNCHANGED <<detectVars, pmVars, regVars>>

\* "Merge plugin contexts into config"
HDCMergePluginContexts ==
    /\ hpc = "merge"
    /\ \E flips \in [1..3 -> BOOLEAN], ranges \in [1..3 -> BOOLEAN] :
          LET pm == getPluginManager(flips) IN
          /\ plugins' = pm.plugins
          /\ metadata' = pm.metadata
          /\ locals' = [locals EXCEPT
                            !.cfg = mergePluginContexts(@, GetContexts(pm.plugins, ranges)),
                            !.trace = Append(@, "GetContexts")]
    /\ hpc' = "detect"
    /\ UNCHANGED <<execVars, cliArgs, configFiles, osArgs>>
    /\ UNCHANGED <<detectVars, pmDir, pmCall, allowedHashes, regVars>>

\* "Detect context (or use forced context)"
HDCDetectContext ==
    /\ hpc = "detect"
    /\ LET r == detectedCtx(locals.forceCtx, plugins, fs, startDir) IN
       /\ locals' = [locals EXCEPT
             !.detectedCtx = r.ctx,
             !.pluginName = r.pluginName,
             !.err = r.err,
             !.trace = @ \o r.calls,
             !.out = IF ~locals.verbose \/ r.err # NoError THEN @
                     ELSE IF locals.forceCtx # ""
                          THEN Append(@, "Using forced context: " \o r.ctx)
                     ELSE IF r.pluginName # ""
                          THEN Append(@, "Detected context: " \o r.ctx
                                          \o " (via plugin: " \o r.pluginName \o ")")
                     ELSE Append(@, "Detected context: " \o r.ctx)]
       /\ hpc' = IF r.err = NoError THEN "lookup" ELSE "done"
    /\ UNCHANGED <<execVars, cliArgs, configFiles, osArgs>>
    /\ UNCHANGED <<detectVars, pmVars, regVars>>

\* the lookup that goes to the detecting plugin's namespaced key when a
\* plugin detected the context
HDCGetCommandNamespaced ==
    /\ hpc = "lookup"
    /\ LET key == IF locals.pluginName = "" THEN locals.detectedCtx
                  ELSE locals.pluginName \o ":" \o locals.detectedCtx
           g   == GetCommand(locals.cfg, key, locals.commandName) IN
       /\ baseCommand' = g.command
       /\ locals' = [locals EXCEPT
             !.err = IF g.err = NoError THEN NoError
                     ELSE "command not found in context: " \o g.err,
             !.trace = Append(@, "GetCommand")]
       /\ hpc' = IF g.err = NoError THEN "dispatch" ELSE "done"
    /\ UNCHANGED <<userArgs, execResult, xpc, osOutcome, cliArgs, configFiles, osArgs>>
    /\ UNCHANGED <<detectVars, pmVars, regVars>>


\* "Get command from registry"
HDCGetCommand ==
    /\ hpc = "lookup"
    /\ LET g == GetCommand(locals.cfg, locals.detectedCtx, locals.commandName) IN
       /\ baseCommand' = g.command
       /\ locals' = [locals EXCEPT
             !.err = IF g.err = NoError THEN NoError
                     ELSE "command not found in context: " \o g.err,
             !.trace = Append(@, "GetCommand")]
       /\ hpc' = IF g.err = NoError THEN "dispatch" ELSE "done"
    /\ UNCHANGED <<userArgs, execResult, xpc, osOutcome, cliArgs, configFiles, osArgs>>
    /\ UNCHANGED <<detectVars, pmVars, regVars>>

\* the last step with the dry-run return taken out: the report is printed and
\* the command is executed all the same
HDCExecuteIgnoringDryRun ==
    /\ hpc = "dispatch"
    /\ LET printed == IF locals.dryRun \/ locals.verbose
                      THEN resolutionLines(locals.detectedCtx, baseCommand, userArgs)
                      ELSE << >>
       IN  \E os \in OsOutcomes :
               LET r == executeCommandSecure(baseCommand, userArgs, os.found, os.run) IN
               /\ osOutcome' = os
               /\ execResult' = r
               /\ locals' = [locals EXCEPT !.out = @ \o printed,
                                           !.err = r.err,
                                           !.trace = Append(@, "executeCommandSecure")]
    /\ hpc' = "done"
    /\ UNCHANGED <<baseCommand, userArgs, xpc, cliArgs, configFiles, osArgs>>
    /\ UNCHANGED <<detectVars, pmVars, regVars>>


\* the last step with one retry: a command that failed or timed out is run
\* a second time
HDCExecuteRetrying ==
    /\ hpc = "dispatch"
    /\ LET printed == IF locals.dryRun \/ locals.verbose
                      THEN resolutionLines(locals.detectedCtx, baseCommand, userArgs)
                      ELSE << >>
       IN  IF locals.dryRun
           THEN /\ locals' = [locals EXCEPT !.out = @ \o printed]
                /\ UNCHANGED <<execResult, osOutcome>>
           ELSE \E os \in OsOutcomes, again \in OsOutcomes :
                   LET r1 == executeCommandSecure(baseCommand, userArgs, os.found, os.run)
                       r2 == executeCommandSecure(baseCommand, userArgs, again.found, again.run)
                       retry == r1.err \in {"command failed", "command timed out"}
                   IN
                   /\ osOutcome' = IF retry THEN again ELSE os
                   /\ execResult' = IF retry
                                    THEN [err |-> r2.err, spawned |-> r1.spawned \o r2.spawned]
                                    ELSE r1
                   /\ locals' = [locals EXCEPT !.out = @ \o printed,
                                               !.err = execResult'.err,
                                               !.trace = Append(@, "executeCommandSecure")]
    /\ hpc' = "done"
    /\ UNCHANGED <<baseCommand, userArgs, xpc, cliArgs, configFiles, osArgs>>
    /\ UNCHANGED <<detectVars, pmVars, regVars>>


\* the dry-run / verbose report, then "Execute the command securely"
HDCExecute ==
    /\ hpc = "dispatch"
    /\ LET printed == IF locals.dryRun \/ locals.verbose
                      THEN resolutionLines(locals.detectedCtx, baseCommand, userArgs)
                      ELSE << >>
       IN  IF locals.dryRun
           THEN /\ locals' = [locals EXCEPT !.out = @ \o printed]
                /\ UNCHANGED <<execResult, osOutcome>>
           ELSE \E os \in OsOutcomes :
                   LET r == executeCommandSecure(baseCommand, userArgs, os.found, os.run) IN
                   /\ osOutcome' = os
                   /\ execResult' = r
                   /\ locals' = [locals EXCEPT !.out = @ \o printed,
                                               !.err = r.err,
                                               !.trace = Append(@, "executeCommandSecure")]
    /\ hpc' = "done"
    /\ UNCHANGED <<baseCommand, userArgs, xpc, cliArgs, configFiles, osArgs>>
    /\ UNCHANGED <<detectVars, pmVars, regVars>>

NextDispatch ==
    \/ CLIExecute
    \/ HDCParse
    \/ HDCValidate
    \/ HDCLoadConfig
    \/ HDCMergePluginContexts
    \/ HDCDetectContext
    \/ HDCGetCommand
    \/ HDCExecute

SpecDispatch ==
    /\ InitDispatch
    /\ [][NextDispatch]_vars

SpecExec ==
    /\ InitExec
    /\ [][NextExec]_vars

SpecDetect ==
    /\ InitDetect
    /\ [][NextDetect]_vars

SpecPM ==
    /\ InitPM
    /\ [][NextPM]_vars

-----------------------------------------------------------------------------
(* SpecRegistry: a Registry built over a configuration and called on its own *)

\* a configuration whose context table is nil
NilTableConfig == [nilTable |-> TRUE]

\* configurations registry.New is given: nil, a nil table, an empty table, the
\* tables of the registry tests, the built-in defaults, and a table in which
\* the empty string is a context name and a command name (the Registry is
\* handed a Config as it is, it does not validate it)
RegistryConfigs ==
    { NilConfig, NilTableConfig, NoConfig,
      [Contexts |-> ("test" :> [Commands |->
            ("build" :> "make all") @@ ("test" :> "make test") @@ ("run" :> "./app")])],
      [Contexts |-> ("test" :> [Commands |->
            ("complex" :> "npm run build && npm run test | tee output.log")
         @@ ("quoted" :> "echo 'hello world'")
         @@ ("vars" :> "GOOS=linux go build")
         @@ ("run" :> "npm\trun  build ")])],
      [Contexts |-> ("" :> [Commands |-> ("build" :> "make")])
                 @@ ("test" :> [Commands |-> ("" :> "make all")])],
      getDefaultConfig }

RegistryNames == {"", "test", "nonexistent", "build", "deploy", "complex", "run", "go"}

InitRegistry ==
    /\ regConfig \in RegistryConfigs
    /\ regCall = NoCall
    /\ baseCommand = "" /\ userArgs = <<>> /\ execResult = ExecIdle /\ xpc = "off"
    /\ osOutcome = OsIdle
    /\ fs = {} /\ startDir = 0 /\ detectResult = DetectIdle /\ dpc = "off"
    /\ dMarkers = markers
    /\ plugins = <<>> /\ metadata = EmptyMap /\ pmDir = {} /\ pmCall = NoCall
    /\ allowedHashes = {}
    /\ cliArgs = <<>> /\ configFiles = EmptyMap /\ locals = HDCIdle /\ hpc = "off"
    /\ osArgs = <<>>

RegGetCommand ==
    \E context \in RegistryNames, commandName \in RegistryNames :
        /\ regCall' = [op |-> "GetCommand", context |-> context, commandName |-> commandName,
                       result |-> GetCommand(regConfig, context, commandName)]
        /\ UNCHANGED regConfig
        /\ UNCHANGED <<execVars, detectVars, pmVars, hdcVars>>

RegListCommands ==
    \E context \in RegistryNames, flip \in BOOLEAN :
        /\ regCall' = [op |-> "ListCommands", context |-> context,
                       result |-> ListCommands(regConfig, context, flip)]
        /\ UNCHANGED regConfig
        /\ UNCHANGED <<execVars, detectVars, pmVars, hdcVars>>

RegListContexts ==
    \E flip \in BOOLEAN :
        /\ regCall' = [op |-> "ListContexts", result |-> ListContexts(regConfig, flip)]
        /\ UNCHANGED regConfig
        /\ UNCHANGED <<execVars, detectVars, pmVars, hdcVars>>

NextRegistry == RegGetCommand \/ RegListCommands \/ RegListContexts

SpecRegistry ==
    /\ InitRegistry
    /\ [][NextRegistry]_vars

-----------------------------------------------------------------------------
(* Words of a string, stated from positions: a word starts where a non-space *)
(* character follows a space or the start, and runs to the last non-space    *)
(* character before the next space.                                          *)

WordStarts(s) ==
    { i \in 1..Len(s) : ~IsSpace(Char(s, i)) /\ (i = 1 \/ IsSpace(Char(s, i - 1))) }

WordEnd(s, i) ==
    CHOOSE j \in i..Len(s) :
        /\ \A k \in i..j : ~IsSpace(Char(s, k))
        /\ (j = Len(s) \/ IsSpace(Char(s, j + 1)))

WordsOf(s) ==
    [ k \in 1..Cardinality(WordStarts(s)) |->
        LET st == CHOOSE i \in WordStarts(s) :
                      Cardinality({ j \in WordStarts(s) : j < i }) = k - 1
        IN  SubSeq(s, st, WordEnd(s, st)) ]

\* C2: the child's argument vector is the words of the base invocation after
\* the first, in order, followed by the caller arguments, each caller argument
\* being one entry, unchanged, in its original position.
C2_ArgvIsBaseWordsThenCallerArgs ==
    (xpc = "done" /\ execResult.spawned # <<>>) =>
        LET child == execResult.spawned[1]
            fixed == Tail(WordsOf(baseCommand))
        IN  /\ Len(execResult.spawned) = 1
            /\ Len(child.args) = Len(fixed) + Len(userArgs)
            /\ \A i \in 1..Len(fixed) : child.args[i] = fixed[i]
            /\ \A i \in 1..Len(userArgs) : child.args[Len(fixed) + i] = userArgs[i]

\* a base invocation of three words run with two caller arguments, one of
\* them holding white space
C2_Witness ==
    /\ xpc = "done"
    /\ execResult.spawned # <<>>
    /\ Len(WordsOf(baseCommand)) >= 3
    /\ Len(userArgs) = 2
    /\ userArgs[1] # userArgs[2]
    /\ \E i \in 1..2 : ContainsChar(userArgs[i], " ")
    /\ execResult.spawned[1].args[Len(WordsOf(baseCommand)) - 1 + 2] = userArgs[2]

-----------------------------------------------------------------------------
(* Built-in detection: what the directory chain holds *)

\* names of the regular files in a directory that are recognized markers
MarkersIn(d) == { e.name : e \in { x \in fs : x.dir = d /\ ~x.isDir } } \cap MarkerNames

\* the identity a marker file belongs to
IdentityOf(n) ==
    CHOOSE c \in DOMAIN markers : \E j \in 1..Len(markers[c]) : markers[c][j] = n

IdentitiesIn(d) == { IdentityOf(n) : n \in MarkersIn(d) }

\* the fixed order of the built-in identities
IdentityOrder == <<"node", "go", "python", "rust", "java", "ruby", "php", "make">>

Rank(c) == CHOOSE i \in 1..Len(IdentityOrder) : IdentityOrder[i] = c

\* directories of the chain that hold a marker file
MarkerDirs == { d \in Levels : MarkersIn(d) # {} }

\* C4: a start directory holding one recognized marker resolves to that
\* marker's identity; holding markers of two identities it resolves to the one
\* earlier in the order node, go, python, rust, java, ruby, php, make.
C4_StartDirectoryPriority ==
    (dpc = "done" /\ IdentitiesIn(startDir) # {}) =>
        /\ detectResult.found
        /\ detectResult.context \in IdentitiesIn(startDir)
        /\ \A c \in IdentitiesIn(startDir) : Rank(detectResult.context) <= Rank(c)
        /\ Cardinality(MarkersIn(startDir)) = 1 =>
               \A n \in MarkersIn(startDir) : detectResult.context = IdentityOf(n)

\* a directory with markers of two identities, resolved to the earlier one,
\* which is not the first by name
C4_Witness ==
    /\ dpc = "done"
    /\ IdentitiesIn(startDir) = {"python", "java"}
    /\ detectResult.found
    /\ detectResult.context = "python"

\* C5: Detect looks into at most four directories, fewer when the root comes
\* first; with markers in one directory only, k levels above the start, it
\* succeeds exactly when k <= 3.
C5_WalkBound ==
    dpc = "done" =>
        /\ detectResult.examined <= 4
        /\ detectResult.examined <= startDir + 1
        /\ \A m \in Levels :
              (MarkerDirs = {m} /\ m <= startDir) =>
                  (detectResult.found <=> startDir - m <= 3)

\* started four levels below the only marker, below the root: no context found
C5_Witness ==
    /\ dpc = "done"
    /\ MarkerDirs = {1}
    /\ startDir = 5
    /\ ~detectResult.found
    /\ detectResult.examined = 4

-----------------------------------------------------------------------------
(* Plugin Manager: detection and registration *)

\* positions of the registered plugins whose Detect succeeds on pmDir
Detecting == { i \in 1..Len(plugins) : PluginDetect(plugins[i], pmDir).found }

\* C6: DetectContext returns the context and name of the first plugin, in
\* registration order, whose Detect succeeds, without consulting the plugins
\* registered after it; it returns found = FALSE when none detects.
C6_FirstRegisteredDetectorWins ==
    pmCall.op = "DetectContext" =>
        LET r == pmCall.result IN
        IF Detecting = {}
        THEN /\ ~r.found
             /\ r.consulted = [i \in 1..Len(plugins) |-> i]
        ELSE LET first == CHOOSE i \in Detecting : \A j \in Detecting : i <= j IN
             /\ r.found
             /\ r.pluginName = plugins[first].name
             /\ r.context = PluginDetect(plugins[first], pmDir).context
             /\ r.consulted = [i \in 1..first |-> i]

\* docker registered before kubernetes, both would detect: docker answers and
\* kubernetes is not asked
C6_Witness ==
    /\ pmCall.op = "DetectContext"
    /\ plugins = <<NewDockerPlugin, NewKubernetesPlugin>>
    /\ Detecting = {1, 2}
    /\ pmCall.result.pluginName = "docker"
    /\ pmCall.result.context = "docker"
    /\ pmCall.result.consulted = <<1>>

\* C7: registering a plugin whose name an already-registered plugin has fails
\* and leaves the plugin list and the metadata as they were.
C7_DuplicateNameRejected ==
    [][ ( /\ pmCall'.op = "RegisterPlugin"
          /\ \E i \in 1..Len(plugins) : plugins[i].name = pmCall'.plugin.name )
        => ( /\ pmCall'.err # NoError
             /\ plugins' = plugins
             /\ metadata' = metadata ) ]_vars

\* a valid plugin named like a registered one, with other contents, refused
C7_Witness ==
    /\ pmCall.op = "RegisterPlugin"
    /\ pmCall.err = "plugin already registered"
    /\ pmCall.plugin.name = "a"
    /\ pmCall.plugin.version = "2"
    /\ Len(plugins) = 1
    /\ plugins[1].version = "1"
    /\ metadata["a"].Version = "1"

\* C8: no plugin that contributes no contexts, or a context with no commands,
\* gets registered.
C8_NoEmptyPluginRegistered ==
    \A i \in 1..Len(plugins) :
        /\ DOMAIN plugins[i].contexts # {}
        /\ \A c \in DOMAIN plugins[i].contexts : DOMAIN plugins[i].contexts[c].Commands # {}

\* C9: after GetContexts, every registered plugin P and context c of P has the
\* key Name(P):c in the result, mapped to P's definition of c.
C9_NamespacedKeysHoldOwnDefinition ==
    pmCall.op = "GetContexts" =>
        \A i \in 1..Len(plugins) : \A c \in DOMAIN plugins[i].contexts :
            /\ (plugins[i].name \o ":" \o c) \in DOMAIN pmCall.result
            /\ pmCall.result[plugins[i].name \o ":" \o c] = plugins[i].contexts[c]

\* C10: after GetContexts, a bare key c holds the definition given by the
\* earliest-registered plugin that contributes a context named c.
C10_BareKeyIsEarliestPlugin ==
    pmCall.op = "GetContexts" =>
        \A i \in 1..Len(plugins) : \A c \in DOMAIN plugins[i].contexts :
            (\A j \in 1..(i - 1) : c \notin DOMAIN plugins[j].contexts) =>
                /\ c \in DOMAIN pmCall.result
                /\ pmCall.result[c] = plugins[i].contexts[c]

-----------------------------------------------------------------------------
(* Claims about the dispatcher, checked under SpecDispatch *)

\* the path of a child names the program p: p itself, or p in some directory
NamesProgram(path, p) ==
    \/ path = p
    \/ /\ Len(path) > Len(p)
       /\ SubSeq(path, Len(path) - Len(p), Len(path)) = "/" \o p

\* the tokens of the invocation that follow the command name
TokensAfterCommand ==
    IF \E i \in 1..Len(cliArgs) : cliArgs[i] = locals.commandName
    THEN LET c == CHOOSE i \in 1..Len(cliArgs) :
                     /\ cliArgs[i] = locals.commandName
                     /\ \A j \in 1..(i - 1) : cliArgs[j] # locals.commandName
         IN  SubSeq(cliArgs, c + 1, Len(cliArgs))
    ELSE << >>

ShellMetacharacters == {";", "|", "&&", "$(", ")"}

DetectionCalls == SelectSeq(locals.trace, LAMBDA c : c \in {"DetectContext", "Detect"})

\* context resolution has run in this invocation
ContextStepTaken ==
    \/ hpc \in {"lookup", "dispatch"}
    \/ /\ hpc = "done"
       /\ locals.trace # << >>
       /\ locals.trace[Len(locals.trace)] \in
              {"DetectContext", "Detect", "GetCommand", "executeCommandSecure"}

CompiledInPlugins == <<NewDockerPlugin, NewKubernetesPlugin, NewUbuntuPlugin>>

\* C3: once the context step has run, the active context is the forced one
\* with no detection call made; else the Plugin Manager's, with the built-in
\* Detector not called; else the built-in Detector's, called after the Plugin
\* Manager; and if none yields a context the invocation has ended with the
\* detection error, no command looked up and no child started.
C3_ContextResolutionOrder ==
    ContextStepTaken =>
        LET byPlugin  == DetectContext(CompiledInPlugins, cwdEntries(fs, startDir))
            byBuiltin == Detect(fs, startDir)
        IN  IF locals.forceCtx # ""
            THEN locals.detectedCtx = locals.forceCtx /\ DetectionCalls = << >>
            ELSE IF byPlugin.found
            THEN /\ locals.detectedCtx = byPlugin.context
                 /\ DetectionCalls = <<"DetectContext">>
            ELSE IF byBuiltin.found
            THEN /\ locals.detectedCtx = byBuiltin.context
                 /\ DetectionCalls = <<"DetectContext", "Detect">>
            ELSE /\ hpc = "done"
                 /\ locals.err = "failed to detect context"
                 /\ DetectionCalls = <<"DetectContext", "Detect">>
                 /\ execResult.spawned = << >>
                 /\ \A i \in 1..Len(locals.trace) :
                        locals.trace[i] \notin {"GetCommand", "executeCommandSecure"}

C3_Witness ==
    /\ hpc = "done"
    /\ locals.forceCtx = ""
    /\ fileExists(fs, startDir, "go.mod") /\ fileExists(fs, startDir, "Dockerfile")
    /\ locals.detectedCtx = "docker"
    /\ Len(execResult.spawned) = 1


\* ---------------------------------------------------------------------------
\* the merged context table
\* ---------------------------------------------------------------------------

Called(step) == \E i \in 1..Len(locals.trace) : locals.trace[i] = step

\* the configuration config.Load returned to this invocation
LoadedConfig == Load(configFiles, locals.cfgFile).cfg

\* the aggregates GetContexts can return for the registered plugins
PluginAggregates == { GetContexts(plugins, ranges) : ranges \in [1..3 -> BOOLEAN] }

\* C11: once the plugin contexts are merged, every context name of the loaded
\* configuration is in the table with the configuration's own definition,
\* whether or not a plugin contributes that name, and every other key of the
\* table is a key of GetContexts with the plugin's definition.
C11_ConfigurationTakesPrecedence ==
    Called("GetContexts") =>
        /\ \A k \in DOMAIN LoadedConfig.Contexts :
              /\ k \in DOMAIN locals.cfg.Contexts
              /\ locals.cfg.Contexts[k] = LoadedConfig.Contexts[k]
        /\ \A k \in DOMAIN locals.cfg.Contexts \ DOMAIN LoadedConfig.Contexts :
              \E agg \in PluginAggregates :
                  k \in DOMAIN agg /\ locals.cfg.Contexts[k] = agg[k]
        /\ \A agg \in PluginAggregates :
              DOMAIN agg \subseteq DOMAIN locals.cfg.Contexts

C11_Witness ==
    /\ Called("GetContexts")
    /\ "docker" \in DOMAIN LoadedConfig.Contexts
    /\ \E agg \in PluginAggregates :
          /\ "docker" \in DOMAIN agg
          /\ agg["docker"] # LoadedConfig.Contexts["docker"]
          /\ "docker:docker" \in DOMAIN locals.cfg.Contexts
    /\ locals.cfg.Contexts["docker"].Commands["build"] = "podman build ."


\* ---------------------------------------------------------------------------
\* dry run
\* ---------------------------------------------------------------------------

InOutput(line) == \E i \in 1..Len(locals.out) : locals.out[i] = line

\* the error handleDynamicCommand returns for the steps between parsing and
\* execution, worked out from the invocation's inputs alone
ResolutionError ==
    LET v == validateArguments(userArgs, locals.verbose)
        l == Load(configFiles, locals.cfgFile)
        d == detectedCtx(locals.forceCtx, plugins, fs, startDir)
        g == GetCommand(locals.cfg, d.ctx, locals.commandName)
    IN  IF v.err # NoError THEN "invalid arguments: " \o v.err
        ELSE IF l.err # NoError THEN "failed to load config: " \o l.err
        ELSE IF d.err # NoError THEN d.err
        ELSE IF g.err # NoError THEN "command not found in context: " \o g.err
        ELSE NoError

\* C12: with the dry-run flag set no child is ever spawned and the executor
\* is never called; an invocation that got past parsing ends with the error
\* of argument validation, configuration loading, context resolution or
\* command lookup when one of them fails, and otherwise has run all of them
\* and printed the resolved context and the base command the registry holds
\* for it.
C12_DryRunResolvesWithoutSpawning ==
    locals.dryRun =>
        /\ execResult.spawned = << >>
        /\ osOutcome = OsIdle
        /\ ~Called("executeCommandSecure")
        /\ (hpc = "done" /\ Called("validateArguments")) =>
              /\ locals.err = ResolutionError
              /\ locals.err = NoError =>
                    /\ Called("Load") /\ Called("GetContexts") /\ Called("GetCommand")
                    /\ locals.detectedCtx =
                           detectedCtx(locals.forceCtx, plugins, fs, startDir).ctx
                    /\ baseCommand =
                           locals.cfg.Contexts[locals.detectedCtx].Commands[locals.commandName]
                    /\ InOutput("Context: " \o locals.detectedCtx)
                    /\ InOutput("Base command: " \o baseCommand)

C12_Witness ==
    /\ hpc = "done"
    /\ locals.dryRun
    /\ osArgs = <<"--dry-run", "build">>
    /\ Entry(startDir, "go.mod") \in fs
    /\ locals.err = NoError
    /\ configFiles = EmptyMap
    /\ LoadedConfig.Contexts["go"].Commands["build"] = "go build ./..."
    /\ locals.out = <<"Context: go", "Base command: go build ./...">>
    /\ execResult.spawned = << >>


\* ---------------------------------------------------------------------------
\* the executor's errors
\* ---------------------------------------------------------------------------

\* the executor was called with a base command that names a program which
\* exec.LookPath resolved, so that a child was started
ChildStarted == xpc = "done" /\ Fields(baseCommand) # << >> /\ osOutcome.found

\* C13: a child killed because the deadline passed is reported as "command
\* timed out", and a child that failed for a reason of its own is reported as
\* "command failed", never as a timeout.
C13_TimeoutOnlyForDeadline ==
    ChildStarted =>
        /\ osOutcome.run.child = "killed at the deadline" =>
              execResult.err = "command timed out"
        /\ osOutcome.run.child = "failed" => execResult.err = "command failed"


\* C14: when exec.LookPath cannot resolve the first word of the base command
\* the executor returns "command not found" and starts no child; when the base
\* command is empty or holds white space only it returns "empty command" and
\* starts no child either.
C14_NotFoundAndEmptyStartNoChild ==
    xpc = "done" =>
        /\ Fields(baseCommand) = << >> =>
              execResult = [err |-> "empty command", spawned |-> << >>]
        /\ (Fields(baseCommand) # << >> /\ ~osOutcome.found) =>
              execResult = [err |-> "command not found", spawned |-> << >>]
        /\ execResult.err \in {"empty command", "command not found"} =>
              \/ Fields(baseCommand) = << >>
              \/ ~osOutcome.found

C14_Witness ==
    /\ xpc = "done"
    /\ baseCommand = "go build ./..."
    /\ ~osOutcome.found
    /\ execResult.err = "command not found"
    /\ execResult.spawned = << >>

C14_WitnessEmpty ==
    /\ xpc = "done"
    /\ baseCommand = "  "
    /\ osOutcome.found
    /\ execResult.err = "empty command"
    /\ execResult.spawned = << >>


\* ---------------------------------------------------------------------------
\* argument validation
\* ---------------------------------------------------------------------------

OverTheLimits(a) ==
    \/ Len(a) > MaxArgumentCount
    \/ \E i \in 1..Len(a) : Len(a[i]) > MaxArgumentLength

\* C15: with MaxArgumentCount = 100 and MaxArgumentLength = 8192, the
\* invocation ends with an "invalid arguments" error exactly when the caller
\* argument list has more than MaxArgumentCount entries or an entry longer than
\* MaxArgumentLength, whatever characters the arguments hold; it then ends
\* right after validateArguments, with no child spawned.
C15_RejectedExactlyOverTheLimits ==
    /\ MaxArgumentCount = 100 /\ MaxArgumentLength = 8192
    /\ Called("validateArguments") =>
          /\ OverTheLimits(userArgs) <=> HasPrefix(locals.err, "invalid arguments: ")
          /\ OverTheLimits(userArgs) =>
                /\ hpc = "done"
                /\ locals.trace = <<"validateArguments">>
                /\ execResult.spawned = << >>

\* arguments at both limits' edge with shell metacharacters, accepted and run
C15_Witness ==
    /\ hpc = "done"
    /\ Len(userArgs) = 2
    /\ containsDangerousPatterns(userArgs[1])
    /\ Len(userArgs[2]) = MaxArgumentLength
    /\ locals.err = NoError
    /\ Len(execResult.spawned) = 1

C15_WitnessCount ==
    /\ hpc = "done"
    /\ Len(userArgs) = MaxArgumentCount
    /\ Len(execResult.spawned) = 1

C15_WitnessRejected ==
    /\ hpc = "done"
    /\ Len(userArgs) = MaxArgumentCount + 1
    /\ locals.err = "invalid arguments: too many arguments"


\* ---------------------------------------------------------------------------
\* the registry
\* ---------------------------------------------------------------------------

\* the last call was GetCommand on a Registry that has a context table
GetCommandOnTable == regCall.op = "GetCommand" /\ "Contexts" \in DOMAIN regConfig

Stored(context, commandName) ==
    /\ context \in DOMAIN regConfig.Contexts
    /\ commandName \in DOMAIN regConfig.Contexts[context].Commands

NoEmptyNames ==
    /\ "" \notin DOMAIN regConfig.Contexts
    /\ \A c \in DOMAIN regConfig.Contexts : "" \notin DOMAIN regConfig.Contexts[c].Commands

\* GetCommand returns the stored string, character for character, exactly
\* for the pairs the table holds, "unknown context" with an empty string when
\* the context is not a key, and "command not defined in context" with an
\* empty string when only the command is not
LookupContract ==
    LET c == regCall.context
        n == regCall.commandName
        r == regCall.result
    IN  /\ Stored(c, n) <=> r.err = NoError
        /\ Stored(c, n) => r.command = regConfig.Contexts[c].Commands[n]
        /\ c \notin DOMAIN regConfig.Contexts =>
              r = [command |-> "", err |-> "unknown context"]
        /\ (c \in DOMAIN regConfig.Contexts /\ ~Stored(c, n)) =>
              r = [command |-> "", err |-> "command not defined in context"]

\* C16 as stated: the lookup contract, and an empty context name or an empty
\* command name is always an error.
C16_LookupAndEmptyNamesAreErrors ==
    GetCommandOnTable =>
        /\ LookupContract
        /\ (regCall.context = "" \/ regCall.commandName = "") =>
              regCall.result.err # NoError /\ regCall.result.command = ""

\* C16 (amended): the lookup contract, and an empty context name or an empty
\* command name is an error whenever the table has no empty name as a key.
C16_LookupExactlyWhatTheTableHolds ==
    GetCommandOnTable =>
        /\ LookupContract
        /\ (NoEmptyNames /\ (regCall.context = "" \/ regCall.commandName = "")) =>
              regCall.result.err # NoError /\ regCall.result.command = ""

C16_Witness ==
    /\ GetCommandOnTable
    /\ regCall.context = "test"
    /\ regCall.commandName = "complex"
    /\ regCall.result =
          [command |-> "npm run build && npm run test | tee output.log", err |-> NoError]

C16_WitnessEmptyName ==
    /\ GetCommandOnTable
    /\ NoEmptyNames
    /\ regCall.context = "test"
    /\ regCall.commandName = ""
    /\ regCall.result = [command |-> "", err |-> "command not defined in context"]


\* ---------------------------------------------------------------------------
\* single shot
\* ---------------------------------------------------------------------------

ExecutorCalls == SelectSeq(locals.trace, LAMBDA c : c = "executeCommandSecure")

\* C17: an invocation never has more than one child and never calls the
\* executor twice; a child exists only if parsing found a command and
\* argument validation, configuration loading, context resolution and command
\* lookup all succeeded; and once the invocation has ended, with a timeout, a
\* failed command or any other error, it takes no further step.
C17_AtMostOneChildNoRetry ==
    /\ Len(execResult.spawned) <= 1
    /\ Len(ExecutorCalls) <= 1
    /\ execResult.spawned # << >> =>
          /\ locals.commandName # "" /\ locals.help = "" /\ locals.subcommand = ""
          /\ locals.trace[1] = "validateArguments"
          /\ Called("Load") /\ Called("GetContexts") /\ Called("GetCommand")
          /\ ResolutionError = NoError
          /\ hpc = "done"
    /\ hpc = "done" => ~ENABLED NextDispatch

C17_Witness ==
    /\ hpc = "done"
    /\ locals.err = "command timed out"
    /\ osOutcome.found /\ osOutcome.run.child = "killed at the deadline"
    /\ Len(execResult.spawned) = 1
    /\ Len(ExecutorCalls) = 1


\* ---------------------------------------------------------------------------
\* what is forwarded
\* ---------------------------------------------------------------------------

ValueFlags == {"--config", "--context", "--timeout"}
SwitchFlags == {"--dry-run", "--verbose"}

\* the position in a token list of the first token that is neither one of
\* tb's flags nor the value of one (a flag that takes a value and stands last
\* has none and is such a token itself); Len + 1 if there is none
RECURSIVE FirstNonFlag(_, _)
FirstNonFlag(a, i) ==
    IF i > Len(a) THEN i
    ELSE IF a[i] \in SwitchFlags THEN FirstNonFlag(a, i + 1)
    ELSE IF a[i] \in ValueFlags /\ i < Len(a) THEN FirstNonFlag(a, i + 2)
    ELSE i

CommandPosition(a) == FirstNonFlag(a, 1)

AfterCommand(a) == SubSeq(a, CommandPosition(a) + 1, Len(a))

IsHelpToken(t) == t \in {"--help", "-h"}

C18_WitnessHelp ==
    /\ hpc = "done"
    /\ osArgs = <<"build", "-h">>
    /\ cliArgs = <<"help", "build">>
    /\ userArgs = << >>


\* --dry-run stands after the command name of the invocation, which uses no
\* "--" separator and asks for no help
DryRunAfterCommand ==
    /\ CommandPosition(osArgs) < Len(osArgs)
    /\ osArgs[1] \notin knownCommands
    /\ \A i \in 1..Len(osArgs) : osArgs[i] \notin {"--", "--help", "-h", "--version"}
    /\ \E i \in (CommandPosition(osArgs) + 1)..Len(osArgs) : osArgs[i] = "--dry-run"

\* C19: an invocation with --dry-run after the command name starts no child,
\* and when it ends without an error it has printed the resolved context and
\* the base command.
C19_TrailingDryRunOnlyPreviews ==
    DryRunAfterCommand =>
        /\ execResult.spawned = << >>
        /\ (hpc = "done" /\ locals.err = NoError) =>
              /\ InOutput("Context: " \o locals.detectedCtx)
              /\ InOutput("Base command: " \o baseCommand)


\* ---------------------------------------------------------------------------
\* plugin identity
\* ---------------------------------------------------------------------------

\* C20: no registered plugin has an empty name or an empty version, whatever
\* its own Validate returned when it was registered.
C20_RegisteredPluginsHaveNameAndVersion ==
    /\ \A i \in 1..Len(plugins) : Name(plugins[i]) # "" /\ Version(plugins[i]) # ""
    /\ \A n \in DOMAIN metadata : n # "" /\ metadata[n].Version # ""


\* ---------------------------------------------------------------------------
\* configuration files and the built-in defaults
\* ---------------------------------------------------------------------------

\* the path config.Load reads for this invocation, "" when it reads none
PathRead ==
    IF locals.cfgFile # "" THEN locals.cfgFile
    ELSE IF configFileExists(configFiles, LocalConfig) THEN LocalConfig
    ELSE IF configFileExists(configFiles, GlobalConfig) THEN GlobalConfig
    ELSE ""

\* config.Load has returned a configuration read from a file
LoadedFromFile ==
    /\ Called("Load")
    /\ Load(configFiles, locals.cfgFile).err = NoError
    /\ PathRead # ""

\* C21: in the table made from a loaded file, a built-in context the file
\* declares has the file's commands and, for every command name the file does
\* not mention, the built-in default; a built-in context the file does not
\* declare has all its default commands.
C21_DefaultsMergedCommandByCommand ==
    LoadedFromFile =>
        LET file     == configFiles[PathRead].Contexts
            defaults == getDefaultConfig.Contexts
            table    == locals.cfg.Contexts
        IN  \A c \in DOMAIN defaults :
                /\ c \in DOMAIN table
                /\ c \notin DOMAIN file => table[c] = defaults[c]
                /\ c \in DOMAIN file =>
                      /\ \A n \in DOMAIN file[c].Commands :
                             table[c].Commands[n] = file[c].Commands[n]
                      /\ \A n \in DOMAIN defaults[c].Commands \ DOMAIN file[c].Commands :
                             /\ n \in DOMAIN table[c].Commands
                             /\ table[c].Commands[n] = defaults[c].Commands[n]


\* ---------------------------------------------------------------------------
\* loading plugins from files
\* ---------------------------------------------------------------------------

LoadCalls == {"LoadPlugin", "LoadPluginsFromConfig"}

\* C22: a call of LoadPlugin or LoadPluginsFromConfig leaves the plugin list
\* and the metadata as they were, whatever the paths and the allowlist;
\* LoadPlugin returns an error for every path and LoadPluginsFromConfig for
\* every list that names a path; the plugin list changes only by a
\* RegisterPlugin call appending a compiled-in instance.
C22_NoPluginLoadedFromFile ==
    [][ /\ pmCall'.op \in LoadCalls =>
              /\ plugins' = plugins
              /\ metadata' = metadata
              /\ pmCall'.paths # << >> => pmCall'.err # NoError
        /\ plugins' # plugins =>
              /\ pmCall'.op = "RegisterPlugin"
              /\ pmCall'.plugin \in {NewDockerPlugin, NewKubernetesPlugin, NewUbuntuPlugin}
              /\ plugins' = Append(plugins, pmCall'.plugin) ]_vars

\* a regular, readable .so file whose hash is trusted, refused all the same
C22_Witness ==
    /\ pmCall.op = "LoadPlugin"
    /\ pmCall.paths = <<"p.so">>
    /\ "h1" \in allowedHashes
    /\ pmCall.err = "native plugin loading not yet implemented"
    /\ Len(plugins) = 1
    /\ DOMAIN metadata = {Name(plugins[1])}

\* ---------------------------------------------------------------------------
\* the order of the dispatcher's steps
\* ---------------------------------------------------------------------------

\* the calls of handleDynamicCommand in the order of its text
StepOrder ==
    <<"validateArguments", "Load", "GetContexts", "DetectContext", "Detect",
      "GetCommand", "executeCommandSecure">>

StepRank(step) == CHOOSE k \in 1..Len(StepOrder) : StepOrder[k] = step

\* no plugin and no marker gives this invocation a context, and none is forced
ContextUnresolvable ==
    \A flips \in [1..3 -> BOOLEAN] :
        detectedCtx(locals.forceCtx, getPluginManager(flips).plugins, fs, startDir).err
            # NoError

\* C23 as stated: an invocation whose context cannot be resolved and whose
\* arguments also exceed the limits ends with the context-resolution failure.
C23_ContextFailureBeforeArgumentError ==
    ( /\ hpc = "done"
      /\ Called("validateArguments")
      /\ OverTheLimits(userArgs)
      /\ ContextUnresolvable ) => locals.err = "failed to detect context"

\* C23, amended: the calls are made in the order validateArguments, Load,
\* GetContexts, DetectContext, Detect, GetCommand, executeCommandSecure, the
\* validation first; an invocation whose arguments exceed the limits ends with
\* the argument error whether or not its context can be resolved, and with
\* neither a context-resolution nor a command-lookup error; an invocation
\* within the limits whose context cannot be resolved ends with the
\* context-resolution failure once its configuration has loaded.
C23_ValidationBeforeContextResolution ==
    /\ \A i \in 1..Len(locals.trace) : \E k \in 1..Len(StepOrder) : StepOrder[k] = locals.trace[i]
    /\ (\A i \in 1..Len(locals.trace), j \in 1..Len(locals.trace) :
           i < j => StepRank(locals.trace[i]) < StepRank(locals.trace[j]))
    /\ locals.trace # << >> => locals.trace[1] = "validateArguments"
    /\ ( /\ hpc = "done"
         /\ Called("validateArguments")
         /\ OverTheLimits(userArgs) ) =>
            /\ HasPrefix(locals.err, "invalid arguments: ")
            /\ ~Called("DetectContext") /\ ~Called("Detect") /\ ~Called("GetCommand")
    /\ ( /\ hpc = "done"
         /\ Called("GetContexts")
         /\ ContextUnresolvable ) => locals.err = "failed to detect context"

\* no marker in the working directory, no forced context, and 101 arguments:
\* the invocation ends with the argument error
C23_Witness ==
    /\ hpc = "done"
    /\ fs = {}
    /\ locals.forceCtx = ""
    /\ ContextUnresolvable
    /\ Len(userArgs) = MaxArgumentCount + 1
    /\ locals.err = "invalid arguments: too many arguments"
    /\ locals.trace = <<"validateArguments">>

\* ---------------------------------------------------------------------------
\* a Registry over a nil configuration
\* ---------------------------------------------------------------------------

\* the Registry was built over nil, or over a configuration with a nil table
Uninitialized == regConfig \in {NilConfig, NilTableConfig}

\* C24: over a nil configuration, or one with a nil context table, every call
\* returns: ListContexts gives the empty list, and GetCommand and ListCommands
\* give the error "registry not properly initialized" and nothing else, for
\* every context and command name.
C24_NilConfigurationIsAnErrorNotAPanic ==
    Uninitialized =>
        /\ regCall.op = "ListContexts" => regCall.result = << >>
        /\ regCall.op = "GetCommand" =>
              /\ regCall.result.err = "registry not properly initialized"
              /\ regCall.result.command = ""
        /\ regCall.op = "ListCommands" =>
              /\ regCall.result.err = "registry not properly initialized"
              /\ regCall.result.commands = << >>

\* New(nil), then ListContexts, as TestRegistry_NilConfig calls it
C24_Witness ==
    /\ regConfig = NilConfig
    /\ regCall.op = "ListContexts"
    /\ regCall.result = << >>

\* ---------------------------------------------------------------------------
\* the "--" separator
\* ---------------------------------------------------------------------------

\* the position of the first "--" of a token list, 0 if it has none
SeparatorIdx(a) ==
    IF \A i \in 1..Len(a) : a[i] # "--" THEN 0
    ELSE CHOOSE i \in 1..Len(a) : a[i] = "--" /\ \A j \in 1..(i - 1) : a[j] # "--"

\* a token list of the form [flags] command -- args: tb's flags, each value
\* flag with its value, then a command name, then the separator
SeparatorForm(a) ==
    LET k == SeparatorIdx(a) IN
    /\ k >= 2
    /\ ~HasPrefix(a[k - 1], "-")
    /\ CommandPosition(SubSeq(a, 1, k - 1)) = k - 1

\* the same token list with the separator taken out: [flags] command args
WithoutSeparator(a) ==
    SubSeq(a, 1, SeparatorIdx(a) - 1) \o SubSeq(a, SeparatorIdx(a) + 1, Len(a))

\* C25: for an invocation [flags] command -- args with no help token among
\* args, once the flags are parsed the command name is the token before the
\* separator, the caller arguments are exactly the tokens after it, in order,
\* and the context, configuration file, timeout, dry-run and verbose settings
\* are those the flags before the command give, value flags included.
C25_SeparatorKeepsFlagsCommandAndArguments ==
    ( /\ hpc \notin {"off", "execute", "parse"}
      /\ SeparatorForm(osArgs)
      /\ \A i \in (SeparatorIdx(osArgs) + 1)..Len(osArgs) : ~IsHelpToken(osArgs[i]) ) =>
        LET k    == SeparatorIdx(osArgs)
            want == parseLoop(WithoutSeparator(osArgs), 1, parseStart)
        IN  /\ cliArgs = WithoutSeparator(osArgs)
            /\ locals.commandName = osArgs[k - 1]
            /\ userArgs = SubSeq(osArgs, k + 1, Len(osArgs))
            /\ locals.forceCtx = want.forceCtx
            /\ locals.cfgFile = want.cfgFile
            /\ locals.commandTimeout = want.commandTimeout
            /\ locals.dryRun = want.dryRun
            /\ locals.verbose = want.verbose

\* ---------------------------------------------------------------------------
\* proximity and priority in built-in detection
\* ---------------------------------------------------------------------------

\* the directories Detect may look into: the start directory and its ancestors
\* within the bound
WithinBound == { d \in Levels : d <= startDir /\ startDir - d < DetectLevels }

\* the nearest of them that holds a marker file
NearestMarkerDir ==
    CHOOSE d \in WithinBound \cap MarkerDirs :
        \A other \in WithinBound \cap MarkerDirs : other <= d

\* C26: when a directory within the bound holds a marker, Detect returns an
\* identity of the nearest such directory (the start directory first, then
\* each ancestor in turn) and stops the walk there, also when a farther
\* ancestor within the bound holds a marker of an identity earlier in the
\* priority order.
C26_ProximityBeatsPriority ==
    (dpc = "done" /\ WithinBound \cap MarkerDirs # {}) =>
        /\ detectResult.found
        /\ detectResult.context \in IdentitiesIn(NearestMarkerDir)
        /\ detectResult.examined = startDir - NearestMarkerDir + 1

\* a Makefile in the start directory and a package.json in its parent: make,
\* the last identity of the order, wins over node, the first
C26_Witness ==
    /\ dpc = "done"
    /\ startDir >= 1
    /\ IdentitiesIn(startDir) = {"make"}
    /\ IdentitiesIn(startDir - 1) = {"node"}
    /\ detectResult.found
    /\ detectResult.context = "make"
    /\ detectResult.examined = 1

\* ---------------------------------------------------------------------------
\* the Plugin Manager's list and index
\* ---------------------------------------------------------------------------

\* the list and the index agree
ManagerConsistent ==
    /\ \A i \in 1..Len(plugins), j \in 1..Len(plugins) :
          i # j => Name(plugins[i]) # Name(plugins[j])
    /\ DOMAIN metadata = { Name(plugins[i]) : i \in 1..Len(plugins) }
    /\ Cardinality(DOMAIN metadata) = Len(plugins)
    /\ \A name \in DOMAIN metadata :
          /\ metadata[name].Name = name
          /\ metadata[name].ContextCount = Len(metadata[name].Contexts)
          /\ \E i \in 1..Len(plugins) :
                /\ Name(plugins[i]) = name
                /\ { metadata[name].Contexts[k] : k \in 1..Len(metadata[name].Contexts) }
                      = DOMAIN Contexts(plugins[i])

\* C27: after every sequence of RegisterPlugin calls the registered names are
\* pairwise distinct, the metadata index has exactly one entry per registered
\* plugin, under its name, each entry's ContextCount is the number of context
\* names recorded in it, and a call, refused or not, leaves the plugins
\* registered before it where they were: a refused call changes nothing and
\* an accepted one appends one plugin and adds one entry.
C27_ManagerListAndIndexAgree ==
    /\ []ManagerConsistent
    /\ [][ /\ Len(plugins') >= Len(plugins)
           /\ SubSeq(plugins', 1, Len(plugins)) = plugins
           /\ \A name \in DOMAIN metadata :
                 name \in DOMAIN metadata' /\ metadata'[name] = metadata[name]
           /\ (pmCall'.op = "RegisterPlugin" /\ pmCall'.err # NoError) =>
                 plugins' = plugins /\ metadata' = metadata
           /\ (pmCall'.op = "RegisterPlugin" /\ pmCall'.err = NoError) =>
                 /\ plugins' = Append(plugins, pmCall'.plugin)
                 /\ DOMAIN metadata' = DOMAIN metadata \cup {Name(pmCall'.plugin)} ]_vars

\* two plugins registered, then a third call refused for its name: the list
\* and the index still hold the two
C27_Witness ==
    /\ Len(plugins) = 2
    /\ pmCall.op = "RegisterPlugin"
    /\ pmCall.err = "plugin already registered"
    /\ Name(pmCall.plugin) = Name(plugins[1])
    /\ pmCall.plugin # plugins[1]
    /\ DOMAIN metadata = {Name(plugins[1]), Name(plugins[2])}
    /\ metadata[Name(plugins[2])].ContextCount = 2

\* ---------------------------------------------------------------------------
\* the definition a plugin-detected context resolves to
\* ---------------------------------------------------------------------------

\* a plugin detected the context of this invocation and the lookup was made
DetectedByPlugin ==
    /\ locals.forceCtx = ""
    /\ locals.pluginName # ""
    /\ Called("GetCommand")

\* the registered plugin whose Detect succeeded
DetectingPlugin ==
    plugins[CHOOSE i \in 1..Len(plugins) : Name(plugins[i]) = locals.pluginName]

\* what the lookup of this invocation's command gives in a table that holds
\* the detected context with the given definition
ResolvedIn(ctxConfig) ==
    GetCommand([Contexts |-> (locals.detectedCtx :> ctxConfig)],
               locals.detectedCtx, locals.commandName).command

\* C28 as stated: the invocation string of a plugin-detected context is the
\* one the detecting plugin's own Contexts() defines, also when the
\* configuration declares a context of the same name.
C28_PluginDetectedContextUsesPluginDefinition ==
    DetectedByPlugin =>
        /\ locals.detectedCtx \in DOMAIN Contexts(DetectingPlugin)
        /\ baseCommand = ResolvedIn(Contexts(DetectingPlugin)[locals.detectedCtx])

\* C28, amended: the invocation string of a plugin-detected context c is the
\* one the loaded configuration defines for c when the configuration declares
\* a context named c, a command the configuration's c lacks being undefined;
\* otherwise it is the one the detecting plugin's own Contexts() defines for
\* c, no other compiled-in plugin contributing a context of that name.
C28_PluginDefinitionUnlessConfigurationDeclares ==
    DetectedByPlugin =>
        /\ locals.detectedCtx \in DOMAIN Contexts(DetectingPlugin)
        /\ \A i \in 1..Len(plugins) :
              locals.detectedCtx \in DOMAIN Contexts(plugins[i]) =>
                  plugins[i] = DetectingPlugin
        /\ baseCommand =
              IF locals.detectedCtx \in DOMAIN LoadedConfig.Contexts
              THEN ResolvedIn(LoadedConfig.Contexts[locals.detectedCtx])
              ELSE ResolvedIn(Contexts(DetectingPlugin)[locals.detectedCtx])

\* a Dockerfile and a configuration that declares docker its own way: the
\* docker plugin detects, the configuration's build command is run
C28_Witness ==
    /\ hpc = "done"
    /\ DetectedByPlugin
    /\ locals.pluginName = "docker"
    /\ locals.detectedCtx = "docker"
    /\ locals.commandName = "build"
    /\ "docker" \in DOMAIN LoadedConfig.Contexts
    /\ baseCommand = "podman build ."
    /\ Contexts(DetectingPlugin)["docker"].Commands["build"] # baseCommand
    /\ Len(execResult.spawned) = 1

\* a Dockerfile and no configuration file: the docker plugin's own build
\* command is run
C28_WitnessPlugin ==
    /\ hpc = "done"
    /\ DetectedByPlugin
    /\ locals.detectedCtx = "docker"
    /\ "docker" \notin DOMAIN LoadedConfig.Contexts
    /\ baseCommand = Contexts(DetectingPlugin)["docker"].Commands["build"]

\* ---------------------------------------------------------------------------
\* help tokens
\* ---------------------------------------------------------------------------

\* a dynamic-command invocation with a help token somewhere
HelpRequested ==
    /\ Len(osArgs) >= 1
    /\ osArgs[1] \notin knownCommands
    /\ \E i \in 1..Len(osArgs) : IsHelpToken(osArgs[i])

\* what the help command gives for the invocation's first token
HelpOutcomes ==
    { helpCmd(<<cliArgs[2]>>, configFiles, fs, startDir, flips, ranges) :
          flips \in [1..3 -> BOOLEAN], ranges \in [1..3 -> BOOLEAN] }

C29_WitnessError ==
    /\ hpc = "done"
    /\ osArgs = <<"nosuch", "-h">>
    /\ locals.subcommand = "help"
    /\ locals.help = ""
    /\ locals.err = "command not found in any context"

\* ---------------------------------------------------------------------------
\* custom markers
\* ---------------------------------------------------------------------------

\* the context names of the fixed priority list
ListedContexts == { priorityOrder[k] : k \in 1..Len(priorityOrder) }

\* the marker files AddMarker gave a context: what its list holds beyond the
\* list NewDetector gave it
AddedMarkers(c) ==
    LET base == IF c \in DOMAIN markers THEN Len(markers[c]) ELSE 0 IN
    { dMarkers[c][j] : j \in (base + 1)..Len(dMarkers[c]) }

\* the regular files of the start directory that are markers of a context
MarkedBy(c) ==
    { e.name : e \in { x \in fs : x.dir = startDir /\ ~x.isDir } }
        \cap { dMarkers[c][j] : j \in 1..Len(dMarkers[c]) }

\* the start directory's only marker is the file f added for context c: f is
\* there as a regular file, and nothing there marks another context
OnlyMarkerIs(c, f) ==
    /\ f \in AddedMarkers(c)
    /\ MarkedBy(c) = {f}
    /\ \A other \in DOMAIN dMarkers \ {c} : MarkedBy(other) = {}

\* C30: whatever AddMarker calls were made, Detect returns only names of the
\* fixed priority list, never a name outside it, also when the start
\* directory's only marker is a file added for such a name; and when the
\* start directory's only marker is a file added for a name of the list,
\* Detect returns that name, found in the start directory.
C30_AddMarkerCountsOnlyForListedContexts ==
    dpc = "done" =>
        /\ detectResult.found => detectResult.context \in ListedContexts
        /\ \A c \in DOMAIN dMarkers : \A f \in AddedMarkers(c) :
              OnlyMarkerIs(c, f) =>
                  IF c \in ListedContexts
                  THEN /\ detectResult.found
                       /\ detectResult.context = c
                       /\ detectResult.examined = 1
                  ELSE detectResult.context # c

\* AddMarker("customctx", "custom.config"), then Detect on a directory that
\* holds custom.config and nothing else, with no marker above it: not detected
C30_Witness ==
    /\ dpc = "done"
    /\ "customctx" \in DOMAIN dMarkers
    /\ OnlyMarkerIs("customctx", "custom.config")
    /\ \A e \in fs : e.dir = startDir
    /\ ~detectResult.found

\* AddMarker("make", "custom.config"), then Detect on such a directory: make
C30_WitnessListed ==
    /\ dpc = "done"
    /\ OnlyMarkerIs("make", "custom.config")
    /\ detectResult.found
    /\ detectResult.context = "make"

====
